---- MODULE Spec2Model ----
(***************************************************************************)
(* db-syncer: schema reconciliation and data synchronisation between a     *)
(* source and a target PostgreSQL database (src/syncer/db_syncer.py).      *)
(*                                                                         *)
(* The state is the two live databases (structure and rows), the DBSyncer  *)
(* session's cached metadata, and the position of the call in progress.    *)
(* Three specifications share the variables:                               *)
(*   SpecSort   _sort_tables_by_fk_safe on every small foreign-key graph   *)
(*   SpecSync   sync_data_bulk, row by row                                 *)
(*   SpecApply  analyze_schema / apply_safe_schema_changes                 *)
(***************************************************************************)
EXTENDS Integers, Sequences, FiniteSets, TLC

VARIABLES
    srcSchema,      \* live source structure: table name -> table definition
    srcRows,        \* live source rows: table name -> set of rows
    tgtSchema,      \* live target structure
    tgtRows,        \* live target rows
    target_meta,    \* DBSyncer.target_meta: the session's cached target structure
    call,           \* the DBSyncer method in progress and its arguments
    pc,             \* position inside that method
    sorted_tables,  \* result of _sort_tables_by_fk_safe (table_order)
    cyclic_tables,  \* result of _sort_tables_by_fk_safe (cyclic_tables)
    triggers_disabled, \* target tables under ALTER TABLE ... DISABLE TRIGGER ALL
    plan_sequences, \* DBSyncer.plan_sequences
    frame,          \* local variables of the method in progress
    tgt_statements, \* write statements the call has executed on the target
    before,         \* the target database as it was when the call began
    plan,           \* the MigrationPlan the caller holds (<<>> when none)
    target_inspector, \* DBSyncer.target_inspector: the answers it has cached
    calls,          \* number of calls made in the session
    sequences,      \* the sequences of the source and of the target database
    pending_syncers, \* web.py pending_syncers: target_url -> DBSyncer session
    pending_plans,  \* web.py pending_plans: target_url -> MigrationPlan
    diff_pages      \* the (source_url, target_url) pairs of the pages /diff rendered

webVars == <<pending_syncers, pending_plans, diff_pages>>
dbVars == <<srcSchema, srcRows, tgtSchema, tgtRows, triggers_disabled,
           sequences, webVars>>
sortVars == <<sorted_tables, cyclic_tables>>
planVars == <<plan_sequences, plan, target_inspector, calls>>
vars == <<srcSchema, srcRows, tgtSchema, tgtRows, target_meta, call, pc,
          sorted_tables, cyclic_tables, triggers_disabled, plan_sequences,
          frame, tgt_statements, before, plan, target_inspector, calls,
          sequences, pending_syncers, pending_plans, diff_pages>>

\* web.py lines 20-23: the registries of a process that has served no request
NoWeb ==
    /\ pending_syncers = <<>>
    /\ pending_plans = <<>>
    /\ diff_pages = {}

----------------------------------------------------------------------------
(* Bounds of the model *)

\* tables in the foreign-key graphs given to the dependency resolver
NumTables == 3
\* foreign keys in one source schema
MaxFks == 4

TableNames == <<"users", "orders", "items", "tags", "notes">>
\* the column of a referencing table that holds the key of TableNames[i]
RefCols == <<"user_id", "order_id", "item_id", "tag_id", "note_id">>

TableSet(n) == {TableNames[i] : i \in 1..n}
RefCol(t) == RefCols[CHOOSE i \in 1..Len(TableNames) : TableNames[i] = t]

Range(s) == {s[i] : i \in 1..Len(s)}
\* every enumeration, without repetition, of the finite set S
Perms(S) == {s \in [1..Cardinality(S) -> S] : Range(s) = S}
IndexOf(s, x) == CHOOSE i \in 1..Len(s) : s[i] = x

----------------------------------------------------------------------------
(* Structure: what reflection and the inspector report for one table *)

\* Values of a row: the Python value's kind and its str() text
Null == [kind |-> "null", text |-> "None"]
IntV(s) == [kind |-> "int", text |-> s]
StrV(s) == [kind |-> "str", text |-> s]
BoolV(s) == [kind |-> "bool", text |-> s]
\* a column definition without DEFAULT
NoDefault == [kind |-> "none", text |-> ""]

IntCol == [type |-> "INTEGER", nullable |-> TRUE, default |-> NoDefault]
KeyCol == [type |-> "INTEGER", nullable |-> FALSE, default |-> NoDefault]
TextCol == [type |-> "VARCHAR", nullable |-> TRUE, default |-> NoDefault]
BoolCol == [type |-> "BOOLEAN", nullable |-> TRUE, default |-> NoDefault]

\* inspector.get_foreign_keys entry for t.RefCol(u) -> u.id
ForeignKey(u) ==
    [constrained_columns |-> <<RefCol(u)>>, referred_table |-> u,
     referred_columns |-> <<"id">>]

\* a table with key column id, a text column name and one nullable column
\* per foreign key
KeyedTable(refs) ==
    [columns |-> [c \in {"id", "name"} \cup {RefCol(u) : u \in refs} |->
                     IF c = "id" THEN KeyCol
                     ELSE IF c = "name" THEN TextCol ELSE IntCol],
     primary_key |-> <<"id">>,
     foreign_keys |-> {ForeignKey(u) : u \in refs},
     indexes |-> {}, unique_constraints |-> {}, check_constraints |-> {}]

\* Inspector.get_indexes: the indexes of a table, those that back its unique
\* constraints included
get_indexes(tabledef) ==
    tabledef.indexes \cup
    {[name |-> u.name, unique |-> TRUE, column_names |-> u.column_names] :
        u \in tabledef.unique_constraints}

\* the inspector of a new session has cached nothing
NoCache ==
    [foreign_keys |-> <<>>, indexes |-> <<>>, has_table |-> <<>>,
     caches_has_table |-> FALSE]

\* databases without sequences
NoSequences == [source |-> <<>>, target |-> <<>>]

\* a sequence as SELECT last_value, is_called FROM it shows it
Sequence(last_value, is_called) ==
    [last_value |-> last_value, is_called |-> is_called]

\* the value the next nextval() returns
NextValue(seq) ==
    IF seq.is_called THEN seq.last_value + 1 ELSE seq.last_value

----------------------------------------------------------------------------
(* _sort_tables_by_fk_safe (db_syncer.py 399-437) *)

\* lines 407-413: graph[t] = referred tables of t's foreign keys that are
\* themselves source tables
graph(schema, t) ==
    {fk.referred_table : fk \in schema[t].foreign_keys} \cap DOMAIN schema

RECURSIVE visit(_, _, _), visit_deps(_, _, _, _)

\* lines 427-428: for dep in graph[node]: visit(dep), in the iteration
\* order deps of the set
visit_deps(deps, i, st, iter) ==
    IF i > Len(deps) THEN st
    ELSE visit_deps(deps, i + 1, visit(deps[i], st, iter), iter)

\* a resolver that emits a table before the tables it references
visit_preorder(node, st, iter) ==
    IF node \in st.visited THEN st
    ELSE IF node \in st.temp_mark
         THEN [st EXCEPT !.cycles = @ \cup {node}]
    ELSE LET s1 == [st EXCEPT !.temp_mark = @ \cup {node},
                              !.sorted_tables = Append(@, node)]
             s2 == visit_deps(iter[node], 1, s1, iter)
         IN  [s2 EXCEPT !.temp_mark = @ \ {node},
                        !.visited = @ \cup {node}]

\* lines 420-431
visit(node, st, iter) ==
    IF node \in st.visited THEN st
    ELSE IF node \in st.temp_mark
         THEN [st EXCEPT !.cycles = @ \cup {node}]
    ELSE LET s1 == [st EXCEPT !.temp_mark = @ \cup {node}]
             s2 == visit_deps(iter[node], 1, s1, iter)
         IN  [s2 EXCEPT !.temp_mark = @ \ {node},
                        !.visited = @ \cup {node},
                        !.sorted_tables = Append(@, node)]

\* lines 415-418 and 433-437. tables is list(source_meta.tables.keys());
\* iter[t] is the order in which Python iterates the set graph[t].
sort_tables_by_fk_safe(tables, iter) ==
    visit_deps(tables, 1,
               [sorted_tables |-> <<>>, visited |-> {}, temp_mark |-> {},
                cycles |-> {}],
               iter)

\* The orders the code does not determine: the key order of
\* source_meta.tables and the iteration order of each set graph[t].
TableOrders(schema) == Perms(DOMAIN schema)

RECURSIVE IterOrdersOver(_, _)
IterOrdersOver(schema, T) ==
    IF T = {} THEN {<<>>}
    ELSE LET t == CHOOSE x \in T : TRUE
         IN  {(t :> p) @@ f : p \in Perms(graph(schema, t)),
                              f \in IterOrdersOver(schema, T \ {t})}

IterOrders(schema) == IterOrdersOver(schema, DOMAIN schema)

----------------------------------------------------------------------------
(* SpecSort: the resolver on every graph of at most MaxFks foreign keys *)

Idle == [op |-> "none"]
NoFrame ==
    [ti |-> 0, all_cols |-> {}, disable_fk |-> FALSE, aborted |-> FALSE,
     offset |-> 0, rows |-> <<>>, ri |-> 0, saved |-> <<>>, error |-> "none",
     seen |-> <<>>]

FkGraphs(T) ==
    {E \in SUBSET (T \X T) : Cardinality(E) <= MaxFks}

SchemaOfGraph(T, E) ==
    [t \in T |-> KeyedTable({u \in T : <<t, u>> \in E})]

NoRows(T) == [t \in T |-> {}]

InitSort ==
    /\ \E E \in FkGraphs(TableSet(NumTables)) :
          srcSchema = SchemaOfGraph(TableSet(NumTables), E)
    /\ srcRows = NoRows(TableSet(NumTables))
    /\ tgtSchema = srcSchema
    /\ tgtRows = srcRows
    /\ target_meta = tgtSchema
    /\ call = Idle
    /\ pc = "idle"
    /\ sorted_tables = <<>>
    /\ cyclic_tables = {}
    /\ triggers_disabled = {}
    /\ plan_sequences = <<>>
    /\ plan = <<>>
    /\ target_inspector = NoCache
    /\ calls = 0
    /\ sequences = NoSequences
    /\ frame = NoFrame
    /\ tgt_statements = {}
    /\ before = [rows |-> tgtRows, schema |-> tgtSchema]
    /\ NoWeb

\* a caller obtains (table_order, cyclic_tables)
SortTables ==
    /\ pc = "idle"
    /\ \E tables \in TableOrders(srcSchema), iter \in IterOrders(srcSchema) :
          LET r == sort_tables_by_fk_safe(tables, iter)
          IN  /\ sorted_tables' = r.sorted_tables
              /\ cyclic_tables' = r.cycles
    /\ pc' = "sorted"
    /\ UNCHANGED <<dbVars, target_meta, call, planVars, frame,
                   tgt_statements, before>>

NextSort == SortTables

SpecSort == InitSort /\ [][NextSort]_vars

----------------------------------------------------------------------------
(* The target database: what PostgreSQL does with the statements sent *)

\* keys are integers; KeyTexts[n] is str(n)
KeyTexts == <<"1", "2", "3", "4">>
KeyV(n) == IntV(KeyTexts[n])
KeyNum(v) == IndexOf(KeyTexts, v.text)

Restrict(f, S) == [x \in S |-> f[x]]

\* the rows of a table that agree with key on every primary-key column
RowsWithKey(rows, key, pk_names) ==
    {r \in rows : \A i \in 1..Len(pk_names) : r[pk_names[i]] = key[pk_names[i]]}

\* the value a column takes when a statement gives none
ColumnDefault(coldef) ==
    IF coldef.default = NoDefault THEN Null ELSE coldef.default

\* INSERT INTO t (cols of values) VALUES (...): the stored row
InsertedRow(tabledef, values) ==
    [c \in DOMAIN tabledef.columns |->
        IF c \in DOMAIN values THEN values[c]
        ELSE ColumnDefault(tabledef.columns[c])]

\* UPDATE t SET values: the row after the update
UpdatedRow(r, values) ==
    [c \in DOMAIN r |-> IF c \in DOMAIN values THEN values[c] ELSE r[c]]

ViolatesNotNull(tabledef, r) ==
    \E c \in DOMAIN tabledef.columns :
        ~tabledef.columns[c].nullable /\ r[c] = Null

\* the referential-integrity triggers of table t, fired for the rows
\* written: a non-null reference must find its row
ViolatesForeignKey(schema, rows, t, written) ==
    \E fk \in schema[t].foreign_keys : \E r \in written :
        /\ \A i \in 1..Len(fk.constrained_columns) :
              r[fk.constrained_columns[i]] # Null
        /\ ~\E p \in rows[fk.referred_table] :
              \A i \in 1..Len(fk.constrained_columns) :
                  p[fk.referred_columns[i]] = r[fk.constrained_columns[i]]

\* ALTER TABLE t ADD COLUMN col ...: rejected when the column exists, or
\* when it is NOT NULL without a default and the table holds rows
AddColumnFails(schema, rows, t, col, coldef) ==
    \/ col \in DOMAIN schema[t].columns
    \/ ~coldef.nullable /\ coldef.default = NoDefault /\ rows[t] # {}

AddColumns(tabledef, source_table, cols) ==
    [tabledef EXCEPT !.columns =
        [c \in DOMAIN tabledef.columns \cup cols |->
            IF c \in DOMAIN tabledef.columns THEN tabledef.columns[c]
            ELSE source_table.columns[c]]]

ExtendRows(rows, source_table, cols) ==
    {[c \in DOMAIN r \cup cols |->
        IF c \in DOMAIN r THEN r[c]
        ELSE ColumnDefault(source_table.columns[c])] : r \in rows}

----------------------------------------------------------------------------
(* sync_data_bulk (db_syncer.py 259-397): the per-row computations *)

\* isinstance(col_type, (String, Text))
IsTextual(type) == type \in {"VARCHAR", "TEXT"}

\* Python str(val)
str(v) == [kind |-> "str", text |-> v.text]

\* an UPDATE and a SELECT without their WHERE clause
where_clause_missing(target_rows, row, pk_names) == target_rows

\* a WHERE clause with the equality of the first primary-key column only
where_clause_first_column(target_rows, row, pk_names) ==
    RowsWithKey(target_rows, row, <<pk_names[1]>>)

\* lines 332-337: the rows selected by the WHERE clause, one equality per
\* primary-key column
where_clause(target_rows, row, pk_names) ==
    RowsWithKey(target_rows, row, pk_names)

\* lines 339-346 without the str() of values bound for a textual column
row_data_unconverted(row, all_cols, target_table) ==
    [col \in all_cols |-> IF col \in DOMAIN row THEN row[col] ELSE Null]

\* lines 339-346
row_data(row, all_cols, target_table) ==
    [col \in all_cols |->
        LET val == IF col \in DOMAIN row THEN row[col] ELSE Null
        IN  IF /\ col \in DOMAIN target_table.columns
               /\ IsTextual(target_table.columns[col].type)
               /\ val # Null
            THEN str(val) ELSE val]

NoStatement == [op |-> "none", values |-> <<>>]

\* existing.get(k)
existing_get(existing, k) ==
    IF k \in DOMAIN existing THEN existing[k] ELSE Null

\* lines 357-363 with Python truthiness in place of the null/empty test
merge_update_data_falsy(data, existing, pk_names) ==
    Restrict(data, {k \in DOMAIN data \ Range(pk_names) :
        existing_get(existing, k).text \in {"None", "", "0", "False"}})

\* lines 357-363
merge_update_data(data, existing, pk_names) ==
    Restrict(data, {k \in DOMAIN data \ Range(pk_names) :
        \/ existing_get(existing, k) = Null
        \/ str(existing_get(existing, k)).text = ""})

\* lines 348-369 with the skip branch falling through to overwrite
row_statement_no_skip(strategy, data, found, pk_names) ==
    IF found # {} THEN
        LET existing == CHOOSE r \in found : TRUE
        IN  CASE strategy \in {"skip", "overwrite"} ->
                    [op |-> "update",
                     values |-> Restrict(data, DOMAIN data \ Range(pk_names))]
              [] strategy = "merge" ->
                    LET update_data == merge_update_data(data, existing, pk_names)
                    IN  IF DOMAIN update_data # {}
                        THEN [op |-> "update", values |-> update_data]
                        ELSE NoStatement
              [] OTHER -> NoStatement
    ELSE [op |-> "insert", values |-> data]

\* lines 348-369 with the insert made only under overwrite and merge
row_statement_skip_no_insert(strategy, data, found, pk_names) ==
    IF found # {} THEN
        LET existing == CHOOSE r \in found : TRUE
        IN  CASE strategy = "skip" -> NoStatement
              [] strategy = "overwrite" ->
                    [op |-> "update",
                     values |-> Restrict(data, DOMAIN data \ Range(pk_names))]
              [] strategy = "merge" ->
                    LET update_data == merge_update_data(data, existing, pk_names)
                    IN  IF DOMAIN update_data # {}
                        THEN [op |-> "update", values |-> update_data]
                        ELSE NoStatement
              [] OTHER -> NoStatement
    ELSE IF strategy = "skip" THEN NoStatement
    ELSE [op |-> "insert", values |-> data]

\* lines 348-369: the statement executed for one source row; found is the
\* result of the SELECT of line 335 and existing its first row
row_statement(strategy, data, found, pk_names) ==
    IF found # {} THEN
        LET existing == CHOOSE r \in found : TRUE
        IN  CASE strategy = "skip" -> NoStatement
              [] strategy = "overwrite" ->
                    [op |-> "update",
                     values |-> Restrict(data, DOMAIN data \ Range(pk_names))]
              [] strategy = "merge" ->
                    LET update_data == merge_update_data(data, existing, pk_names)
                    IN  IF DOMAIN update_data # {}
                        THEN [op |-> "update", values |-> update_data]
                        ELSE NoStatement
              [] OTHER -> NoStatement
    ELSE [op |-> "insert", values |-> data]

\* lines 321-326: select(source_table).order_by(*pk_cols)
RECURSIVE KeyLess(_, _, _, _), OrderByKey(_, _)
KeyLess(r1, r2, pk_names, i) ==
    IF i > Len(pk_names) THEN FALSE
    ELSE LET a == KeyNum(r1[pk_names[i]])
             b == KeyNum(r2[pk_names[i]])
         IN  a < b \/ (a = b /\ KeyLess(r1, r2, pk_names, i + 1))

OrderByKey(rows, pk_names) ==
    IF rows = {} THEN <<>>
    ELSE LET first == CHOOSE r \in rows :
                        \A o \in rows \ {r} : ~KeyLess(o, r, pk_names, 1)
         IN  <<first>> \o OrderByKey(rows \ {first}, pk_names)

\* a window that begins at the row the offset names, not after it
OffsetLimitFromOffset(s, offset, limit) ==
    SubSeq(s, IF offset = 0 THEN 1 ELSE offset,
           IF offset + limit < Len(s) THEN offset + limit ELSE Len(s))

\* .offset(offset).limit(batch_size)
OffsetLimit(s, offset, limit) ==
    SubSeq(s, offset + 1, IF offset + limit < Len(s) THEN offset + limit ELSE Len(s))

----------------------------------------------------------------------------
(* sync_data_bulk (db_syncer.py 259-397): the call, statement by statement *)

\* batch sizes tried
MaxBatch == 2
\* primary-key values 1..MaxKey
MaxKey == 2

Strategies == {"skip", "overwrite", "merge"}

Snapshot == [rows |-> tgtRows, schema |-> tgtSchema, triggers |-> triggers_disabled]

\* a rollback that does not reach the trigger settings
RaiseFromTableTriggersKept(error) ==
    /\ tgtRows' = frame.saved.rows
    /\ tgtSchema' = frame.saved.schema
    /\ triggers_disabled' = triggers_disabled
    /\ frame' = [frame EXCEPT !.error = error]
    /\ pc' = "raised"

\* an exception that leaves the rows written so far in the table
RaiseFromTableRowsKept(error) ==
    /\ tgtRows' = tgtRows
    /\ tgtSchema' = frame.saved.schema
    /\ triggers_disabled' = frame.saved.triggers
    /\ frame' = [frame EXCEPT !.error = error]
    /\ pc' = "raised"

\* leaving the with block of line 290 by an exception: ROLLBACK, and the
\* exception leaves sync_data_bulk (no handler encloses the row loop)
RaiseFromTable(error) ==
    /\ tgtRows' = frame.saved.rows
    /\ tgtSchema' = frame.saved.schema
    /\ triggers_disabled' = frame.saved.triggers
    /\ frame' = [frame EXCEPT !.error = error]
    /\ pc' = "raised"

\* line 259-271: the call begins and resolves the table order
SyncStart ==
    /\ pc = "idle"
    /\ \E strategy \in Strategies, batch_size \in 1..MaxBatch,
          create_missing_columns \in BOOLEAN :
          call' = [op |-> "sync_data_bulk", strategy |-> strategy,
                   batch_size |-> batch_size,
                   create_missing_columns |-> create_missing_columns]
    /\ \E tables \in TableOrders(srcSchema), iter \in IterOrders(srcSchema) :
          LET r == sort_tables_by_fk_safe(tables, iter)
          IN  /\ sorted_tables' = r.sorted_tables
              /\ cyclic_tables' = r.cycles
    /\ frame' = [NoFrame EXCEPT !.ti = 1]
    /\ tgt_statements' = {}
    /\ before' = [rows |-> tgtRows, schema |-> tgtSchema]
    /\ pc' = "table"
    /\ UNCHANGED <<dbVars, target_meta, planVars>>

\* a loop head that passes over only the tables target_meta does not hold
passed_over_when_missing(table_name, source_table, meta) ==
    table_name \notin DOMAIN meta

\* lines 276-277 and 281-283: the tables the loop passes over
passed_over(table_name, source_table, meta) ==
    \/ table_name \notin DOMAIN meta
    \/ source_table.primary_key = <<>>

\* lines 273-319: the head of the loop body for table_order[ti]
SyncBeginTable ==
    /\ pc = "table"
    /\ frame.ti <= Len(sorted_tables)
    /\ LET table_name == sorted_tables[frame.ti]
           source_table == srcSchema[table_name]
       IN  IF passed_over(table_name, source_table, target_meta)
           THEN \* lines 276-277 and 282-283: continue
                /\ frame' = [frame EXCEPT !.ti = @ + 1]
                /\ UNCHANGED <<dbVars, pc>>
           ELSE LET target_table == target_meta[table_name]
                    source_cols == DOMAIN source_table.columns
                    target_cols == DOMAIN target_table.columns
                    missing_cols == IF call.create_missing_columns
                                    THEN source_cols \ target_cols ELSE {}
                    \* lines 303-308: a failed ALTER TABLE is caught, and
                    \* leaves the transaction aborted
                    aborted ==
                        \/ table_name \notin DOMAIN tgtSchema
                        \/ \E c \in missing_cols :
                              AddColumnFails(tgtSchema, tgtRows, table_name, c,
                                             source_table.columns[c])
                    \* line 311: Table() returns the Table target_meta already
                    \* holds; the added columns are not in it
                    all_cols == source_cols \cap DOMAIN target_table.columns
                    disable_fk == table_name \in cyclic_tables
                    opened == [frame EXCEPT !.all_cols = all_cols,
                                            !.disable_fk = disable_fk,
                                            !.aborted = aborted,
                                            !.offset = 0,
                                            !.seen = <<>>,
                                            !.saved = Snapshot]
               IN  IF aborted /\ disable_fk
                   THEN \* line 317 raises in the aborted transaction
                        /\ frame' = [opened EXCEPT !.error = "InFailedSqlTransaction"]
                        /\ pc' = "raised"
                        /\ UNCHANGED dbVars
                   ELSE /\ frame' = opened
                        /\ pc' = "batch"
                        /\ tgtSchema' =
                              IF aborted THEN tgtSchema
                              ELSE [tgtSchema EXCEPT ![table_name] =
                                      AddColumns(@, source_table, missing_cols)]
                        /\ tgtRows' =
                              IF aborted THEN tgtRows
                              ELSE [tgtRows EXCEPT ![table_name] =
                                      ExtendRows(@, source_table, missing_cols)]
                        /\ triggers_disabled' =
                              IF disable_fk THEN triggers_disabled \cup {table_name}
                              ELSE triggers_disabled
                        /\ UNCHANGED <<sequences, srcSchema, srcRows, webVars>>
    /\ UNCHANGED <<target_meta, call, sortVars, planVars, tgt_statements,
                   before>>

\* lines 320-329 and 373-374: fetch the next batch; an empty batch ends the
\* table: triggers are enabled again and the transaction commits
SyncFetchBatch ==
    /\ pc = "batch"
    /\ LET table_name == sorted_tables[frame.ti]
           pk_names == srcSchema[table_name].primary_key
           rows == OffsetLimit(OrderByKey(srcRows[table_name], pk_names),
                               frame.offset, call.batch_size)
       IN  IF rows # <<>>
           THEN /\ frame' = [frame EXCEPT !.rows = rows, !.ri = 1]
                /\ pc' = "row"
                /\ UNCHANGED dbVars
           ELSE /\ frame' = [frame EXCEPT !.ti = @ + 1, !.rows = <<>>, !.ri = 0]
                /\ pc' = "table"
                \* COMMIT of an aborted transaction is a ROLLBACK
                /\ tgtRows' = IF frame.aborted THEN frame.saved.rows ELSE tgtRows
                /\ tgtSchema' = IF frame.aborted THEN frame.saved.schema ELSE tgtSchema
                /\ triggers_disabled' =
                      IF frame.aborted THEN frame.saved.triggers
                      ELSE IF frame.disable_fk
                           THEN triggers_disabled \ {table_name}
                           ELSE triggers_disabled
                /\ UNCHANGED <<sequences, srcSchema, srcRows, webVars>>
    /\ UNCHANGED <<target_meta, call, sortVars, planVars, tgt_statements,
                   before>>

\* lines 331-371: one source row of the batch
SyncRow ==
    /\ pc = "row"
    /\ LET table_name == sorted_tables[frame.ti]
           pk_names == srcSchema[table_name].primary_key
           row == frame.rows[frame.ri]
           found == where_clause(tgtRows[table_name], row, pk_names)
           data == row_data(row, frame.all_cols, target_meta[table_name])
           stmt == row_statement(call.strategy, data, found, pk_names)
           written ==
               CASE stmt.op = "insert" ->
                        {InsertedRow(tgtSchema[table_name], stmt.values)}
                 [] stmt.op = "update" ->
                        {UpdatedRow(r, stmt.values) : r \in found}
                 [] OTHER -> {}
           new_rows ==
               CASE stmt.op = "insert" -> tgtRows[table_name] \cup written
                 [] stmt.op = "update" -> (tgtRows[table_name] \ found) \cup written
                 [] OTHER -> tgtRows[table_name]
           fk_error ==
               /\ table_name \notin triggers_disabled
               /\ ViolatesForeignKey(tgtSchema,
                                     [tgtRows EXCEPT ![table_name] = new_rows],
                                     table_name, written)
           null_error == \E r \in written : ViolatesNotNull(tgtSchema[table_name], r)
           last == frame.ri = Len(frame.rows)
       IN  IF frame.aborted
           THEN \* the SELECT of line 335 raises in the aborted transaction
                /\ RaiseFromTable("InFailedSqlTransaction")
                /\ UNCHANGED tgt_statements
           ELSE \E db_error \in {FALSE, stmt.op # "none"} :
                /\ tgt_statements' =
                      IF stmt.op = "none" THEN tgt_statements
                      ELSE tgt_statements \cup
                             {[op |-> stmt.op, table |-> table_name,
                               key |-> Restrict(row, Range(pk_names)),
                               columns |-> DOMAIN stmt.values]}
                /\ IF null_error THEN RaiseFromTable("NotNullViolation")
                   ELSE IF fk_error THEN RaiseFromTable("ForeignKeyViolation")
                   ELSE IF db_error THEN RaiseFromTable("OperationalError")
                   ELSE /\ tgtRows' = [tgtRows EXCEPT ![table_name] = new_rows]
                        /\ frame' = IF last
                                    THEN [frame EXCEPT
                                             !.offset = @ + call.batch_size,
                                             !.seen = Append(@, row)]
                                    ELSE [frame EXCEPT
                                             !.ri = @ + 1,
                                             !.seen = Append(@, row)]
                        /\ pc' = IF last THEN "batch" ELSE "row"
                        /\ UNCHANGED <<tgtSchema, triggers_disabled>>
    /\ UNCHANGED <<sequences, srcSchema, srcRows, webVars, target_meta, call,
                   sortVars,
                   planVars, before>>

\* lines 376-397: the sequences queued in plan_sequences. tgt_conn is the
\* connection of the last with block, closed when that block ended (or
\* unbound when no table was loaded): its first execute raises inside the
\* try of each pass, the handler logs it, and nothing reaches the target.
SyncSequences ==
    /\ pc = "table"
    /\ frame.ti > Len(sorted_tables)
    /\ pc' = "returned"
    /\ UNCHANGED <<dbVars, target_meta, call, sortVars, planVars, frame,
                   tgt_statements, before>>

NextSync ==
    \/ SyncStart
    \/ SyncBeginTable
    \/ SyncFetchBatch
    \/ SyncRow
    \/ SyncSequences

----------------------------------------------------------------------------
(* SpecSync: the databases sync_data_bulk is run on *)

\* Related tables: two tables with any foreign keys between them (self
\* references included), the same structure on both sides, one source row
\* per table that references row 1 of every table its table references, and
\* a target in which each table is empty or already holds that row.
RelatedTables == TableSet(2)

RelatedRow(tabledef) ==
    [c \in DOMAIN tabledef.columns |->
        IF c = "name" THEN StrV("n") ELSE KeyV(1)]

InitSyncRelated ==
    /\ \E E \in FkGraphs(RelatedTables) :
          srcSchema = SchemaOfGraph(RelatedTables, E)
    /\ srcRows = [t \in RelatedTables |-> {RelatedRow(srcSchema[t])}]
    /\ tgtSchema = srcSchema
    /\ plan_sequences = <<>>
    /\ sequences = NoSequences
    /\ \E loaded \in SUBSET RelatedTables :
          tgtRows = [t \in RelatedTables |->
                        IF t \in loaded THEN srcRows[t] ELSE {}]

\* One table, users, whose structure and rows differ between the sides:
\* age is INTEGER in the source and INTEGER or VARCHAR in the target,
\* legacy_code exists only in the target, last_login (when present) only in
\* the source. Values are written to columns of their own type or to a
\* textual column.
SourceUsers(last_login) ==
    [columns |->
        [c \in {"id", "name", "age", "is_active"} \cup
               (IF last_login = "absent" THEN {} ELSE {"last_login"}) |->
            CASE c = "id" -> KeyCol
              [] c = "name" -> TextCol
              [] c = "age" -> IntCol
              [] c = "is_active" -> BoolCol
              [] c = "last_login" ->
                    [TextCol EXCEPT !.nullable = (last_login = "nullable")]],
     primary_key |-> <<"id">>,
     foreign_keys |-> {},
     indexes |-> {}, unique_constraints |-> {}, check_constraints |-> {}]

TargetUsers(age_type) ==
    [columns |->
        [c \in {"id", "name", "age", "is_active", "legacy_code"} |->
            CASE c = "id" -> KeyCol
              [] c = "name" -> TextCol
              [] c = "age" -> [IntCol EXCEPT !.type = age_type]
              [] c = "is_active" -> BoolCol
              [] c = "legacy_code" -> TextCol],
     primary_key |-> <<"id">>,
     foreign_keys |-> {},
     indexes |-> {}, unique_constraints |-> {}, check_constraints |-> {}]

SourceProfiles(k) ==
    IF k = 1 THEN {"populated", "null", "empty"} ELSE {"populated"}
TargetProfiles(k) ==
    IF k = 1 THEN {"populated", "null", "empty"} ELSE {"populated", "null"}

SourceUser(tabledef, k, profile) ==
    [c \in DOMAIN tabledef.columns |->
        CASE c = "id" -> KeyV(k)
          [] c = "last_login" -> StrV("today")
          [] profile = "null" -> Null
          [] c = "name" -> IF profile = "empty" THEN StrV("") ELSE StrV("Alice")
          [] c = "age" -> IF profile = "empty" THEN IntV("0") ELSE IntV("25")
          [] c = "is_active" ->
                IF profile = "empty" THEN BoolV("False") ELSE BoolV("True")]

TargetUser(tabledef, k, profile) ==
    [c \in DOMAIN tabledef.columns |->
        CASE c = "id" -> KeyV(k)
          [] c = "legacy_code" -> StrV("L")
          [] profile = "null" -> Null
          [] c = "name" ->
                IF profile = "empty" THEN StrV("") ELSE StrV("Alice PROD")
          [] c = "age" ->
                LET n == IF profile = "empty" THEN "0" ELSE "30"
                IN  IF IsTextual(tabledef.columns[c].type) THEN StrV(n) ELSE IntV(n)
          [] c = "is_active" ->
                IF profile = "empty" THEN BoolV("False") ELSE BoolV("True")]

\* every table content with at most one row per key
OnePerKey(S) == {R \in SUBSET S : \A r1, r2 \in R : r1.id = r2.id => r1 = r2}

SourceUserRows(tabledef) ==
    OnePerKey({SourceUser(tabledef, k, p) : k \in 1..MaxKey, p \in SourceProfiles(1)}
              \cap UNION {{SourceUser(tabledef, k, p) : p \in SourceProfiles(k)} :
                            k \in 1..MaxKey})

TargetUserRows(tabledef) ==
    OnePerKey({TargetUser(tabledef, k, p) : k \in 1..MaxKey, p \in TargetProfiles(1)}
              \cap UNION {{TargetUser(tabledef, k, p) : p \in TargetProfiles(k)} :
                            k \in 1..MaxKey})

\* the sequence behind users.id: an earlier analyze_schema of the session
\* queued it ("fresh": the target has no such sequence, "stale": the target
\* has it, one insert in) or found no sequence on the column ("none")
QueuedCases == {"none", "fresh", "stale"}

UsersIdSeq == [table |-> "users", sequence |-> "users_id_seq", column |-> "id"]

UsersSequence(seq) == [n \in {"users_id_seq"} |-> seq]

InitSyncUsers ==
    /\ \E last_login \in {"absent", "nullable", "not null"} :
          srcSchema = [t \in {"users"} |-> SourceUsers(last_login)]
    /\ \E age_type \in {"INTEGER", "VARCHAR"} :
          tgtSchema = [t \in {"users"} |-> TargetUsers(age_type)]
    /\ \E R \in SourceUserRows(srcSchema["users"]) :
          srcRows = [t \in {"users"} |-> R]
    /\ \E R \in TargetUserRows(tgtSchema["users"]) :
          tgtRows = [t \in {"users"} |-> R]
    /\ \E queued \in QueuedCases :
          /\ plan_sequences = IF queued = "none" THEN <<>> ELSE <<UsersIdSeq>>
          /\ sequences =
                [source |-> UsersSequence(Sequence(MaxKey, TRUE)),
                 target |-> IF queued = "stale"
                            THEN UsersSequence(Sequence(1, TRUE))
                            ELSE <<>>]

\* Three tables that differ in their keys: members, with the two-column key
\* (user_id, group_id), in both databases; events, without primary key, in
\* both databases, with a column detail that only the source has; drafts,
\* with the key id and one row, in the source only or in neither database,
\* or in both with no row yet in the target.
Members ==
    [columns |-> [c \in {"user_id", "group_id", "name"} |->
                     IF c = "name" THEN TextCol ELSE KeyCol],
     primary_key |-> <<"user_id", "group_id">>,
     foreign_keys |-> {},
     indexes |-> {}, unique_constraints |-> {}, check_constraints |-> {}]

Events(cols) ==
    [columns |-> [c \in cols |-> TextCol],
     primary_key |-> <<>>,
     foreign_keys |-> {},
     indexes |-> {}, unique_constraints |-> {}, check_constraints |-> {}]

Member(user_id, group_id, name) ==
    [user_id |-> KeyV(user_id), group_id |-> KeyV(group_id), name |-> name]

\* rows whose keys share one column with a key of the other side and rows
\* whose keys are on both sides, with a name that differs, is null or agrees
SourceMembers ==
    {{Member(1, 2, StrV("a"))},
     {Member(1, 1, StrV("a")), Member(1, 2, StrV("a"))},
     {Member(1, 2, StrV("a")), Member(2, 1, StrV("a"))}}

TargetMembers ==
    {{},
     {Member(1, 1, StrV("b")), Member(2, 2, StrV("b"))},
     {Member(1, 2, Null), Member(1, 1, StrV("b"))},
     {Member(1, 2, StrV("a")), Member(2, 2, Null)}}

InitSyncKeys ==
    /\ \E only \in {{}, {"drafts"}} :
          /\ srcSchema =
                [t \in {"members", "events"} \cup only |->
                    CASE t = "members" -> Members
                      [] t = "events" -> Events({"name", "detail"})
                      [] OTHER -> KeyedTable({})]
          /\ \E R \in SourceMembers :
                srcRows =
                    [t \in {"members", "events"} \cup only |->
                        CASE t = "members" -> R
                          [] t = "events" ->
                                {[name |-> StrV("e"), detail |-> StrV("d")]}
                          [] OTHER -> {RelatedRow(KeyedTable({}))}]
    /\ \E both \in SUBSET (DOMAIN srcSchema \cap {"drafts"}) :
          /\ tgtSchema =
                [t \in {"members", "events"} \cup both |->
                    CASE t = "members" -> Members
                      [] t = "events" -> Events({"name"})
                      [] OTHER -> KeyedTable({})]
          /\ \E R \in TargetMembers, E \in {{}, {[name |-> StrV("old")]}} :
                tgtRows =
                    [t \in {"members", "events"} \cup both |->
                        CASE t = "members" -> R
                          [] t = "events" -> E
                          [] OTHER -> {}]
    /\ plan_sequences = <<>>
    /\ sequences = NoSequences

\* DBSyncer.__init__ reflects both databases
InitSync ==
    /\ InitSyncRelated \/ InitSyncUsers \/ InitSyncKeys
    /\ target_meta = tgtSchema
    /\ call = Idle
    /\ pc = "idle"
    /\ sorted_tables = <<>>
    /\ cyclic_tables = {}
    /\ triggers_disabled = {}
    /\ plan = <<>>
    /\ target_inspector = NoCache
    /\ calls = 0
    /\ frame = NoFrame
    /\ tgt_statements = {}
    /\ before = [rows |-> tgtRows, schema |-> tgtSchema]
    /\ NoWeb

SpecSync == InitSync /\ [][NextSync]_vars

----------------------------------------------------------------------------
(* report_conflicts (db_syncer.py 439-497) *)

\* lines 467-468, 471-472: the key of a row in the dicts src_rows and tgt_rows
pk_value(row, pk_names) ==
    IF Len(pk_names) > 1
    THEN [i \in 1..Len(pk_names) |-> row[pk_names[i]]]
    ELSE row[pk_names[1]]

\* lines 478-479: dict.get(pk_value, {})
row_get(rows, pk_names, pk) ==
    IF \E r \in rows : pk_value(r, pk_names) = pk
    THEN CHOOSE r \in rows : pk_value(r, pk_names) = pk
    ELSE <<>>

\* a rendering that takes the str() of the value of an absent row as well
rendered_text(row, col) ==
    IF col \in DOMAIN row THEN str(row[col]) ELSE str(Null)

\* lines 483-484: str(row[col]) if col in row else None
rendered(row, col) ==
    IF col \in DOMAIN row THEN str(row[col]) ELSE Null

\* a comparison of the values themselves, without str()
diffs_of_values(src_row, tgt_row, all_cols) ==
    LET value(row, c) == IF c \in DOMAIN row THEN row[c] ELSE Null
    IN  [col \in {c \in all_cols : value(src_row, c) # value(tgt_row, c)} |->
            <<rendered(src_row, col), rendered(tgt_row, col)>>]

\* lines 481-486: the columns whose renderings differ, with both renderings
diffs(src_row, tgt_row, all_cols) ==
    [col \in {c \in all_cols : rendered(src_row, c) # rendered(tgt_row, c)} |->
        <<rendered(src_row, col), rendered(tgt_row, col)>>]

\* lines 463-489 for one table: the records of the keys that have
\* differences. The list is in the iteration order of the set all_pks; the
\* model keeps the records as a set.
table_conflicts(source_table, target_table, src_rows, tgt_rows) ==
    LET pk_names == source_table.primary_key
        all_cols == DOMAIN source_table.columns \cup DOMAIN target_table.columns
        all_pks == {pk_value(r, pk_names) : r \in src_rows}
                   \cup {pk_value(r, pk_names) : r \in tgt_rows}
        diffs_of(pk) == diffs(row_get(src_rows, pk_names, pk),
                              row_get(tgt_rows, pk_names, pk), all_cols)
    IN  {[pk |-> pk, diffs |-> diffs_of(pk)] :
            pk \in {k \in all_pks : DOMAIN diffs_of(k) # {}}}

\* lines 443-497: the report over the tables the resolver returned. A table
\* target_meta does not hold, or without primary key, is passed over; a
\* table without conflicts gets no entry.
report_conflicts(source_meta, meta, src, tgt, tables) ==
    LET conflicts_of(t) ==
            table_conflicts(source_meta[t], meta[t], src[t], tgt[t])
        reported == {t \in tables :
                        /\ t \in DOMAIN meta
                        /\ source_meta[t].primary_key # <<>>
                        /\ conflicts_of(t) # {}}
    IN  [t \in reported |-> conflicts_of(t)]

\* a report that forgets the queued sequences of the session
ReportConflictsForgetting ==
    /\ pc = "idle"
    /\ call' = [op |-> "report_conflicts"]
    /\ frame' = [conflicts |-> <<>>]
    /\ plan_sequences' = <<>>
    /\ pc' = "returned"
    /\ UNCHANGED <<dbVars, target_meta, sortVars, plan, target_inspector,
                   calls, tgt_statements, before>>

\* a caller asks for the report; the call reads both databases and writes
\* nothing. table_order and cyclic_tables are the resolver's answer.
ReportConflicts ==
    /\ pc = "idle"
    /\ call' = [op |-> "report_conflicts"]
    /\ \E tables \in TableOrders(srcSchema), iter \in IterOrders(srcSchema) :
          LET r == sort_tables_by_fk_safe(tables, iter)
          IN  /\ sorted_tables' = r.sorted_tables
              /\ cyclic_tables' = r.cycles
              /\ frame' =
                    [conflicts |->
                        report_conflicts(srcSchema, target_meta, srcRows,
                                         tgtRows,
                                         Range(r.sorted_tables) \cup r.cycles)]
    /\ pc' = "returned"
    /\ UNCHANGED <<dbVars, target_meta, planVars, tgt_statements, before>>

NextReport == ReportConflicts

\* the sessions of SpecSync, asked for the report before any load
SpecReport == InitSync /\ [][NextReport]_vars

\* the sessions over the tables members, events and drafts
InitKeys == InitSync /\ "members" \in DOMAIN srcSchema

\* a caller asks for a load or for the report
NextCalls ==
    \/ SyncStart
    \/ SyncBeginTable
    \/ SyncFetchBatch
    \/ SyncRow
    \/ SyncSequences
    \/ ReportConflicts

SpecKeys == InitKeys /\ [][NextCalls]_vars

\* sync_data_bulk runs in its caller's thread, one blocking statement after
\* the other: a step that can be taken is taken
SpecKeysRun == InitKeys /\ [][NextSync]_vars /\ WF_vars(NextSync)

----------------------------------------------------------------------------
(* resolve_conflicts (api/main.py 206-288) *)

\* dict.get(k): None for a key the dict does not have
dict_get(d, k) == IF k \in DOMAIN d THEN d[k] ELSE Null

\* Python truthiness of what dict.get returned: None, {}, 0, '' and False
\* are false
truthy(v) ==
    /\ v # Null
    /\ DOMAIN v # {}
    /\ v \notin {IntV("0"), StrV(""), BoolV("False")}

\* form.get(f"strategy_{table}_{pk_value}", global_strategy)
record_strategy(overrides, table, pk, global_strategy) ==
    IF <<table, pk>> \in DOMAIN overrides THEN overrides[<<table, pk>>]
    ELSE global_strategy

\* lines 254-275: the statement sent for one record
resolve_statement(rec, strategy, target_columns) ==
    LET source_data == dict_get(rec, "source_data")
        target_data == dict_get(rec, "target_data")
    IN  IF ~truthy(source_data) THEN NoStatement
        ELSE LET source_data_filtered ==
                     Restrict(source_data, DOMAIN source_data \cap target_columns)
             IN  CASE strategy = "overwrite" ->
                          [op |-> "update", values |-> source_data_filtered]
                   [] strategy = "merge" ->
                          LET update_data ==
                                  Restrict(source_data_filtered,
                                      {k \in DOMAIN source_data_filtered :
                                          ~truthy(dict_get(target_data, k))})
                          IN  IF DOMAIN update_data # {}
                              THEN [op |-> "update", values |-> update_data]
                              ELSE NoStatement
                   [] OTHER -> NoStatement

\* lines 244-275 for one table: the rows after the statements of its
\* records; an UPDATE addresses the rows whose first key column equals pk
resolved_rows(rows, records, overrides, table, global_strategy, target_columns, pk_col) ==
    LET statement(rec) ==
            resolve_statement(rec,
                record_strategy(overrides, table, rec.pk, global_strategy),
                target_columns)
        updates(r) == {rec \in records :
                          statement(rec).op = "update" /\ r[pk_col] = rec.pk}
    IN  {IF updates(r) = {} THEN r
         ELSE UpdatedRow(r, statement(CHOOSE rec \in updates(r) : TRUE).values) :
            r \in rows}

\* the statements resolve_conflicts sends for a table
resolve_statements(records, overrides, table, global_strategy, target_columns) ==
    {[op |-> "update", table |-> table, key |-> rec.pk,
      columns |-> DOMAIN resolve_statement(rec,
                      record_strategy(overrides, table, rec.pk, global_strategy),
                      target_columns).values] :
        rec \in {x \in records :
                    resolve_statement(x,
                        record_strategy(overrides, table, x.pk, global_strategy),
                        target_columns).op = "update"}}

\* The records lines 254-256 read. pending_conflicts is filled at line 179
\* from DBSyncer.get_conflicts, which the repository does not have: its
\* records are keyed as a ConflictRecord is (the key value, a tuple for a
\* composite key) and carry the two rows under the names the handler reads;
\* the row of an absent side is {}.
records_with_data(report, source_meta, src, tgt) ==
    [t \in DOMAIN report |->
        {[pk |-> rec.pk,
          source_data |-> row_get(src[t], source_meta[t].primary_key, rec.pk),
          target_data |-> row_get(tgt[t], source_meta[t].primary_key, rec.pk)] :
            rec \in report[t]}]

\* lines 268, 274: target_table.c[pk_col] == pk_value with a tuple on the
\* right compares an integer column with a record, which the database
\* rejects
update_rejected(statement, source_table) ==
    statement.op = "update" /\ Len(source_table.primary_key) > 1

\* the records of a report, as (table, key) pairs
RecordIds(report) ==
    UNION {{<<t, c.pk>> : c \in report[t]} : t \in DOMAIN report}

\* the form of the request: at most one record has a strategy of its own
Overrides(report) ==
    {<<>>} \cup UNION {[{id} -> Strategies] : id \in RecordIds(report)}

\* POST /resolve_conflicts after a report. registered: pending_syncers has
\* the session; stored: pending_conflicts has records; with_data: the records
\* carry source_data and target_data, else they are the records of
\* report_conflicts. A rejected UPDATE leaves the with block of line 243 by
\* its exception and the block rolls back; the statements before it in the
\* iteration were sent. DBSyncer has no method diff_schema: the calls of
\* lines 222 and 277 raise AttributeError, the second after the with block
\* has committed.
ResolveConflicts ==
    /\ pc = "returned"
    /\ call.op = "report_conflicts"
    /\ \E registered \in BOOLEAN, stored \in BOOLEAN, with_data \in BOOLEAN,
          global_strategy \in Strategies, overrides \in Overrides(frame.conflicts) :
          LET conflicts ==
                  IF ~stored THEN <<>>
                  ELSE IF with_data
                       THEN records_with_data(frame.conflicts, srcSchema,
                                              srcRows, tgtRows)
                       ELSE frame.conflicts
              target_columns(t) == DOMAIN target_meta[t].columns
              pk_col(t) == srcSchema[t].primary_key[1]
              statements ==
                  UNION {resolve_statements(conflicts[t], overrides, t,
                             global_strategy, target_columns(t)) :
                         t \in DOMAIN conflicts}
              failing == {st \in statements :
                              update_rejected(st, srcSchema[st.table])}
          IN  /\ call' = [op |-> "resolve_conflicts", registered |-> registered,
                          conflicts |-> conflicts,
                          global_strategy |-> global_strategy,
                          overrides |-> overrides]
              /\ before' = [rows |-> tgtRows, schema |-> tgtSchema]
              /\ IF ~registered
                 THEN /\ pc' = "returned"
                      /\ frame' = [status |-> 400, error |-> "none"]
                      /\ tgt_statements' = {}
                      /\ UNCHANGED tgtRows
                 ELSE IF failing # {}
                 THEN /\ pc' = "raised"
                      /\ frame' = [status |-> 500, error |-> "ProgrammingError"]
                      /\ \E failed \in failing :
                         \E sent \in SUBSET (statements \ failing) :
                            tgt_statements' = {failed} \cup sent
                      /\ UNCHANGED tgtRows
                 ELSE /\ pc' = "raised"
                      /\ frame' = [status |-> 500, error |-> "AttributeError"]
                      /\ tgt_statements' = statements
                      /\ tgtRows' =
                            [t \in DOMAIN tgtRows |->
                                IF t \in DOMAIN conflicts
                                THEN resolved_rows(tgtRows[t], conflicts[t],
                                         overrides, t, global_strategy,
                                         target_columns(t), pk_col(t))
                                ELSE tgtRows[t]]
    /\ UNCHANGED <<srcSchema, srcRows, webVars, tgtSchema, triggers_disabled,
                   sequences,
                   target_meta, sortVars, planVars>>

NextResolve ==
    \/ ReportConflicts
    \/ ResolveConflicts

\* the sessions of SpecSync: a report, then a request to resolve it
SpecResolve == InitSync /\ [][NextResolve]_vars

----------------------------------------------------------------------------
(* analyze_schema (db_syncer.py 45-145) *)

\* sorted(): table names in alphabetical order
Alphabetical == <<"audit_log", "items", "notes", "orders", "tags", "users">>
sorted(S) == LET In(t) == t \in S IN SelectSeq(Alphabetical, In)

\* the order in which the session iterates a set of names or a list the
\* inspector returns: not determined by the code, the same each time
RECURSIVE Enumerate(_)
Enumerate(S) ==
    IF S = {} THEN <<>>
    ELSE LET x == CHOOSE y \in S : TRUE IN <<x>> \o Enumerate(S \ {x})

RECURSIVE Concat(_)
Concat(ss) == IF ss = <<>> THEN <<>> ELSE Head(ss) \o Concat(Tail(ss))

\* MetaData.reflect(extend_existing=True): every table of the database is
\* read again; a Table the MetaData holds for no table of the database stays
reflect(meta, live) ==
    [t \in DOMAIN meta \cup DOMAIN live |->
        IF t \in DOMAIN live THEN live[t] ELSE meta[t]]

\* an inspector that remembers which tables it has answered for and not
\* what it answered
InspectTargetForgetful(cache, live, T) ==
    [cache EXCEPT
        !.foreign_keys =
            [t \in DOMAIN cache.foreign_keys \cup T |->
                IF t \in DOMAIN cache.foreign_keys THEN {}
                ELSE live[t].foreign_keys],
        !.indexes =
            [t \in DOMAIN cache.indexes \cup T |->
                IF t \in DOMAIN cache.indexes THEN {}
                ELSE get_indexes(live[t])]]

\* the target inspector after get_foreign_keys and get_indexes for the
\* tables T: an answer it has given before is given again from its cache
InspectTarget(cache, live, T) ==
    [cache EXCEPT
        !.foreign_keys =
            [t \in DOMAIN cache.foreign_keys \cup T |->
                IF t \in DOMAIN cache.foreign_keys THEN cache.foreign_keys[t]
                ELSE live[t].foreign_keys],
        !.indexes =
            [t \in DOMAIN cache.indexes \cup T |->
                IF t \in DOMAIN cache.indexes THEN cache.indexes[t]
                ELSE get_indexes(live[t])]]

\* lines 100-101
fk_signature(fk) ==
    <<fk.constrained_columns, fk.referred_table, fk.referred_columns>>

\* lines 116-117
idx_signature(idx) == <<idx.unique, idx.column_names>>

\* getattr(col, "sequence", None)
col_sequence(coldef) ==
    IF "sequence" \in DOMAIN coldef THEN coldef.sequence ELSE "None"

\* lines 138-141
table_sequences(table, source_table) ==
    LET HasSequence(col) == col_sequence(source_table.columns[col]) # "None"
        seq_cols == SelectSeq(Enumerate(DOMAIN source_table.columns), HasSequence)
    IN  [i \in 1..Len(seq_cols) |->
            [table |-> table,
             sequence |-> col_sequence(source_table.columns[seq_cols[i]]),
             column |-> seq_cols[i]]]

\* lines 61-88: what one shared table contributes to the plan
analyze_table(table, source_table, target_table, target_fks, target_indexes) ==
    LET source_cols == DOMAIN source_table.columns
        target_cols == DOMAIN target_table.columns
        missing == Enumerate(source_cols \ target_cols)
        extra == Enumerate(target_cols \ source_cols)
        Mismatch(col) == source_table.columns[col].type #
                         target_table.columns[col].type
        mismatched == SelectSeq(Enumerate(source_cols \cap target_cols), Mismatch)
        MissingFk(fk) ==
            fk_signature(fk) \notin {fk_signature(t) : t \in target_fks}
        fks == SelectSeq(Enumerate(source_table.foreign_keys), MissingFk)
        MissingIdx(idx) ==
            idx_signature(idx) \notin {idx_signature(t) : t \in target_indexes}
        idxs == SelectSeq(Enumerate(get_indexes(source_table)), MissingIdx)
        uniques == Enumerate(source_table.unique_constraints)
        checks == Enumerate(source_table.check_constraints)
    IN  [add_columns |->
            [col \in source_cols \ target_cols |-> source_table.columns[col].type],
         add_foreign_keys |->
            [i \in 1..Len(fks) |->
                [table |-> table,
                 constrained_columns |-> fks[i].constrained_columns,
                 referred_table |-> fks[i].referred_table,
                 referred_columns |-> fks[i].referred_columns]],
         add_indexes |->
            [i \in 1..Len(idxs) |->
                [table |-> table, column_names |-> idxs[i].column_names]],
         add_unique_constraints |->
            [i \in 1..Len(uniques) |->
                [table |-> table, column_names |-> uniques[i].column_names]],
         add_check_constraints |->
            [i \in 1..Len(checks) |->
                [table |-> table, sqltext |-> checks[i].sqltext]],
         add_sequences |-> table_sequences(table, source_table),
         warnings |->
            [i \in 1..Len(missing) |->
                [level |-> "WARNING",
                 message |-> <<"Column missing in target", missing[i], table>>]]
            \o
            [i \in 1..Len(extra) |->
                [level |-> "MANUAL",
                 message |-> <<"Extra column in target table", extra[i], table>>]]
            \o
            [i \in 1..Len(mismatched) |->
                [level |-> "WARNING",
                 message |-> <<"Type mismatch", mismatched[i], table,
                               source_table.columns[mismatched[i]].type,
                               target_table.columns[mismatched[i]].type>>]]]

\* a loop that takes every table of the source as new
every_table(source_tables, target_tables) == sorted(source_tables)

\* line 55: the tables the first loop runs over
new_tables(source_tables, target_tables) ==
    sorted(source_tables \ target_tables)

\* lines 49-94: the plan. inspector is the target inspector after it has
\* answered for the shared tables.
analyze_schema(source_meta, meta, inspector) ==
    LET source_tables == DOMAIN source_meta
        target_tables == DOMAIN meta
        new == new_tables(source_tables, target_tables)
        shared == sorted(source_tables \cap target_tables)
        only_target == sorted(target_tables \ source_tables)
        per == [i \in 1..Len(shared) |->
                   analyze_table(shared[i], source_meta[shared[i]],
                                 meta[shared[i]],
                                 inspector.foreign_keys[shared[i]],
                                 inspector.indexes[shared[i]])]
        changed == {shared[i] : i \in {j \in 1..Len(shared) :
                                          DOMAIN per[j].add_columns # {}}}
    IN  [create_tables |-> new,
         add_columns |->
            [t \in changed |-> per[IndexOf(shared, t)].add_columns],
         add_indexes |-> Concat([i \in 1..Len(shared) |-> per[i].add_indexes]),
         add_foreign_keys |->
            Concat([i \in 1..Len(shared) |-> per[i].add_foreign_keys]),
         add_unique_constraints |->
            Concat([i \in 1..Len(shared) |-> per[i].add_unique_constraints]),
         add_check_constraints |->
            Concat([i \in 1..Len(shared) |-> per[i].add_check_constraints]),
         add_sequences |->
            Concat([i \in 1..Len(shared) |-> per[i].add_sequences]),
         warnings |->
            [i \in 1..Len(new) |->
                [level |-> "WARNING", message |-> <<"New table", new[i]>>]]
            \o Concat([i \in 1..Len(shared) |-> per[i].warnings])
            \o [i \in 1..Len(only_target) |->
                   [level |-> "MANUAL",
                    message |-> <<"Extra table in target DB", only_target[i]>>]]]

\* lines 143-145, once per shared table: plan.add_sequences as it stands
\* after each of the first n shared tables is appended to plan_sequences
RECURSIVE queued_sequences(_, _, _)
queued_sequences(source_meta, shared, n) ==
    IF n = 0 THEN <<>>
    ELSE queued_sequences(source_meta, shared, n - 1) \o
         Concat([i \in 1..n |->
                    table_sequences(shared[i], source_meta[shared[i]])])

----------------------------------------------------------------------------
(* analyze_schema and apply_safe_schema_changes (db_syncer.py 45-257): the
   calls of a session, statement by statement *)

\* calls made in one session
MaxCalls == 3

AtRest == pc \in {"idle", "returned", "raised"}

\* lines 45-94. source_meta is the source structure, which no call changes.
\* Inspector.get_foreign_keys raises NoSuchTableError for a table that
\* target_meta holds and the database does not, and analyze_schema ends there.
AnalyzeSchema ==
    /\ AtRest
    /\ calls < MaxCalls
    /\ LET meta == reflect(target_meta, tgtSchema)
           shared == sorted(DOMAIN srcSchema \cap DOMAIN meta)
           absent == {i \in 1..Len(shared) :
                         /\ shared[i] \notin DOMAIN target_inspector.foreign_keys
                         /\ shared[i] \notin DOMAIN tgtSchema}
           n == IF absent = {} THEN Len(shared)
                ELSE (CHOOSE i \in absent : \A j \in absent : i <= j) - 1
           inspector == InspectTarget(target_inspector, tgtSchema,
                                      {shared[i] : i \in 1..n})
       IN  /\ target_meta' = meta
           /\ target_inspector' = inspector
           /\ plan_sequences' =
                 plan_sequences \o queued_sequences(srcSchema, shared, n)
           /\ IF absent = {}
              THEN /\ plan' = <<analyze_schema(srcSchema, meta, inspector)>>
                   /\ frame' = NoFrame
                   /\ pc' = "returned"
              ELSE /\ plan' = plan
                   /\ frame' = [NoFrame EXCEPT !.error = "NoSuchTableError"]
                   /\ pc' = "raised"
    /\ call' = [op |-> "analyze_schema"]
    /\ calls' = calls + 1
    /\ before' = [rows |-> tgtRows, schema |-> tgtSchema]
    /\ UNCHANGED <<dbVars, sortVars, tgt_statements>>

\* the items of a plan in the order in which lines 151-227 take them
Tagged(kind, items) ==
    [i \in 1..Len(items) |-> [kind |-> kind, item |-> items[i]]]

PlanItems(p) ==
    LET tables == sorted(DOMAIN p.add_columns)
        Cols(t) == Enumerate(DOMAIN p.add_columns[t])
    IN  Tagged("table", [i \in 1..Len(p.create_tables) |->
                            [table |-> p.create_tables[i]]])
        \o Tagged("column",
                  Concat([i \in 1..Len(tables) |->
                            [j \in 1..Len(Cols(tables[i])) |->
                                [table |-> tables[i],
                                 column |-> Cols(tables[i])[j],
                                 type |-> p.add_columns[tables[i]][Cols(tables[i])[j]]]]]))
        \o Tagged("foreign_key", p.add_foreign_keys)
        \o Tagged("index", p.add_indexes)
        \o Tagged("unique", p.add_unique_constraints)
        \o Tagged("check", p.add_check_constraints)

\* line 148: BEGIN. again: the call before, on this session, applied this
\* plan, returned, and its transaction was committed.
ApplyStart ==
    /\ AtRest
    /\ calls < MaxCalls
    /\ Len(plan) = 1
    /\ call' = [op |-> "apply_safe_schema_changes", plan |-> plan[1],
                again |-> /\ call.op = "apply_safe_schema_changes"
                          /\ pc = "returned"
                          /\ ~frame.aborted
                          /\ call.plan = plan[1]]
    /\ frame' = [items |-> PlanItems(plan[1]), ii |-> 1, aborted |-> FALSE,
                 saved |-> Snapshot, error |-> "none"]
    /\ before' = [rows |-> tgtRows, schema |-> tgtSchema]
    /\ tgt_statements' = {}
    /\ calls' = calls + 1
    /\ pc' = "apply"
    /\ UNCHANGED <<dbVars, target_meta, sortVars, plan_sequences, plan,
                   target_inspector>>

\* the item lines 151-227 have reached
AtItem(kind) ==
    /\ pc = "apply"
    /\ frame.ii <= Len(frame.items)
    /\ frame.items[frame.ii].kind = kind

\* on to the next item; a statement that failed inside a try leaves the
\* transaction aborted
NextItem(aborted) ==
    /\ frame' = [frame EXCEPT !.ii = @ + 1, !.aborted = aborted]
    /\ pc' = "apply"

\* an exception leaves the with block of line 148: ROLLBACK, and the
\* exception leaves apply_safe_schema_changes
RaiseFromApply(error) ==
    /\ tgtSchema' = frame.saved.schema
    /\ tgtRows' = frame.saved.rows
    /\ frame' = [frame EXCEPT !.error = error]
    /\ pc' = "raised"

\* names of the relations that are indexes, over the whole database
IndexNames(schema) ==
    UNION {{x.name : x \in get_indexes(schema[t])} : t \in DOMAIN schema}

\* names of the constraints of one table
ConstraintNames(tabledef) ==
    {x.name : x \in tabledef.unique_constraints \cup tabledef.check_constraints}

\* a name for an index that steps aside when the name is taken
index_name_unused(table_name, columns) ==
    IF <<"idx", table_name, columns>> \in IndexNames(tgtSchema)
    THEN <<"idx2", table_name, columns>>
    ELSE <<"idx", table_name, columns>>

\* line 198, line 212 and line 223: the names given to what is created
index_name(table_name, columns) == <<"idx", table_name, columns>>
uc_name(table_name, columns) == <<"uniq", table_name, columns>>
check_name(table_name, rest) == <<"chk", table_name, <<rest>>>>

\* ALTER TABLE ... ADD COLUMN IF NOT EXISTS
AddColumnIfNotExists(tabledef, col, coldef) ==
    IF col \in DOMAIN tabledef.columns THEN tabledef
    ELSE [tabledef EXCEPT !.columns = (col :> coldef) @@ @]

\* a unique constraint put in the place of those the table has on the same
\* columns
replace_unique_constraint(constraints, c) ==
    {x \in constraints : x.column_names # c.column_names} \cup {c}

\* ALTER TABLE ... ADD CONSTRAINT ... UNIQUE
add_unique_constraint(constraints, c) == constraints \cup {c}

applyFrameVars == <<sequences, srcSchema, srcRows, webVars, triggers_disabled,
                    call, sortVars,
                    plan_sequences, plan, calls, before>>

\* the statement of the item reached was sent to the target, and succeeded
\* or failed
Executed(ok) ==
    tgt_statements' =
        tgt_statements \cup {[item |-> frame.items[frame.ii], ok |-> ok]}

\* lines 151-157. The inspector works on a connection of its own and sees
\* what is committed; SQLAlchemy 2 answers has_table from the inspector's
\* cache, SQLAlchemy 1.4 asks the database each time. to_metadata puts the
\* copy of the source Table into target_meta, or returns the Table
\* target_meta already holds. No handler encloses the CREATE TABLE.
ApplyCreateTable ==
    /\ AtItem("table")
    /\ LET table_name == frame.items[frame.ii].item.table
           known == /\ target_inspector.caches_has_table
                    /\ table_name \in DOMAIN target_inspector.has_table
           has_table == IF known THEN target_inspector.has_table[table_name]
                        ELSE table_name \in DOMAIN frame.saved.schema
           meta == IF table_name \in DOMAIN target_meta THEN target_meta
                   ELSE (table_name :> srcSchema[table_name]) @@ target_meta
           rejected ==
               \/ frame.aborted
               \/ table_name \in DOMAIN tgtSchema
               \/ \E fk \in meta[table_name].foreign_keys :
                     fk.referred_table \notin DOMAIN tgtSchema \cup {table_name}
       IN  /\ target_inspector' =
                 IF target_inspector.caches_has_table /\ ~known
                 THEN [target_inspector EXCEPT
                          !.has_table = (table_name :> has_table) @@ @]
                 ELSE target_inspector
           /\ IF has_table
              THEN /\ NextItem(frame.aborted)
                   /\ UNCHANGED <<tgtSchema, tgtRows, target_meta,
                                  tgt_statements>>
              ELSE /\ target_meta' = meta
                   /\ \E db_error \in BOOLEAN :
                         IF rejected \/ db_error
                         THEN /\ RaiseFromApply("ProgrammingError")
                              /\ Executed(FALSE)
                         ELSE /\ tgtSchema' =
                                    (table_name :> meta[table_name]) @@ tgtSchema
                              /\ tgtRows' = (table_name :> {}) @@ tgtRows
                              /\ NextItem(FALSE)
                              /\ Executed(TRUE)
    /\ UNCHANGED applyFrameVars

\* lines 160-176, one column. Table() returns the Table target_meta holds.
\* source_col.default is the Python-side default, which a reflected column
\* does not have: the statement carries no DEFAULT. After the statement
\* line 174 reads source_col.default.arg and raises AttributeError inside
\* the try, which changes nothing in the database.
ApplyAddColumn ==
    /\ AtItem("column")
    /\ LET it == frame.items[frame.ii].item
           source_col == srcSchema[it.table].columns[it.column]
           coldef == [type |-> it.type, nullable |-> source_col.nullable,
                      default |-> NoDefault]
           rejected ==
               \/ frame.aborted
               \/ it.table \notin DOMAIN tgtSchema
               \/ /\ it.column \notin DOMAIN tgtSchema[it.table].columns
                  /\ ~coldef.nullable
                  /\ tgtRows[it.table] # {}
       IN  \E db_error \in BOOLEAN :
              IF rejected \/ db_error
              THEN /\ NextItem(TRUE)
                   /\ Executed(FALSE)
                   /\ UNCHANGED <<tgtSchema, tgtRows>>
              ELSE /\ Executed(TRUE)
                   /\ tgtSchema' =
                         [tgtSchema EXCEPT ![it.table] =
                             AddColumnIfNotExists(@, it.column, coldef)]
                   /\ tgtRows' =
                         [tgtRows EXCEPT ![it.table] =
                             {r @@ (it.column :> Null) : r \in @}]
                   /\ NextItem(FALSE)
    /\ UNCHANGED <<applyFrameVars, target_meta, target_inspector>>

\* lines 179-191. ForeignKeyConstraint has no method create: line 188 raises
\* AttributeError inside the try, and no statement reaches the database.
ApplyForeignKey ==
    /\ AtItem("foreign_key")
    /\ NextItem(frame.aborted)
    /\ UNCHANGED <<applyFrameVars, tgtSchema, tgtRows, target_meta,
                   target_inspector, tgt_statements>>

\* an index created under another name when its name is taken
ApplyIndexNameUnused ==
    /\ AtItem("index")
    /\ LET it == frame.items[frame.ii].item
           name == index_name_unused(it.table, it.column_names)
           rejected ==
               \/ frame.aborted
               \/ it.table \notin DOMAIN tgtSchema
               \/ name \in IndexNames(tgtSchema)
               \/ \E c \in Range(it.column_names) :
                     c \notin DOMAIN tgtSchema[it.table].columns
       IN  IF \E c \in Range(it.column_names) :
                 c \notin DOMAIN target_meta[it.table].columns
           THEN /\ RaiseFromApply("KeyError")
                /\ UNCHANGED tgt_statements
           ELSE \E db_error \in BOOLEAN :
                  IF rejected \/ db_error
                  THEN /\ NextItem(TRUE)
                       /\ Executed(FALSE)
                       /\ UNCHANGED <<tgtSchema, tgtRows>>
                  ELSE /\ Executed(TRUE)
                       /\ tgtSchema' =
                             [tgtSchema EXCEPT ![it.table].indexes =
                                 @ \cup {[name |-> name, unique |-> FALSE,
                                          column_names |-> it.column_names]}]
                       /\ NextItem(FALSE)
                       /\ UNCHANGED tgtRows
    /\ UNCHANGED <<applyFrameVars, target_meta, target_inspector>>

\* lines 194-204. target_table.c[c] is outside the try and raises KeyError
\* for a column the Table of target_meta does not have. The index created
\* is not unique.
ApplyIndex ==
    /\ AtItem("index")
    /\ LET it == frame.items[frame.ii].item
           name == index_name(it.table, it.column_names)
           rejected ==
               \/ frame.aborted
               \/ it.table \notin DOMAIN tgtSchema
               \/ name \in IndexNames(tgtSchema)
               \/ \E c \in Range(it.column_names) :
                     c \notin DOMAIN tgtSchema[it.table].columns
       IN  IF \E c \in Range(it.column_names) :
                 c \notin DOMAIN target_meta[it.table].columns
           THEN /\ RaiseFromApply("KeyError")
                /\ UNCHANGED tgt_statements
           ELSE \E db_error \in BOOLEAN :
                  IF rejected \/ db_error
                  THEN /\ NextItem(TRUE)
                       /\ Executed(FALSE)
                       /\ UNCHANGED <<tgtSchema, tgtRows>>
                  ELSE /\ Executed(TRUE)
                       /\ tgtSchema' =
                             [tgtSchema EXCEPT ![it.table].indexes =
                                 @ \cup {[name |-> name, unique |-> FALSE,
                                          column_names |-> it.column_names]}]
                       /\ NextItem(FALSE)
                       /\ UNCHANGED tgtRows
    /\ UNCHANGED <<applyFrameVars, target_meta, target_inspector>>

\* lines 207-217
ApplyUnique ==
    /\ AtItem("unique")
    /\ LET it == frame.items[frame.ii].item
           name == uc_name(it.table, it.column_names)
           rejected ==
               \/ frame.aborted
               \/ it.table \notin DOMAIN tgtSchema
               \/ name \in IndexNames(tgtSchema)
               \/ name \in ConstraintNames(tgtSchema[it.table])
               \/ \E c \in Range(it.column_names) :
                     c \notin DOMAIN tgtSchema[it.table].columns
       IN  \E db_error \in BOOLEAN :
              IF rejected \/ db_error
              THEN /\ NextItem(TRUE)
                   /\ Executed(FALSE)
                   /\ UNCHANGED tgtSchema
              ELSE /\ Executed(TRUE)
                   /\ tgtSchema' =
                         [tgtSchema EXCEPT ![it.table].unique_constraints =
                             add_unique_constraint(@,
                                 [name |-> name,
                                  column_names |-> it.column_names])]
                   /\ NextItem(FALSE)
    /\ UNCHANGED <<applyFrameVars, tgtRows, target_meta, target_inspector>>

\* lines 219-227. The checks of the model compare age with a number, which
\* the database refuses for a column age that is not numeric.
ApplyCheck ==
    /\ AtItem("check")
    /\ LET it == frame.items[frame.ii].item
           name == check_name(it.table, it.sqltext)
           rejected ==
               \/ frame.aborted
               \/ it.table \notin DOMAIN tgtSchema
               \/ name \in ConstraintNames(tgtSchema[it.table])
               \/ tgtSchema[it.table].columns["age"].type # "INTEGER"
       IN  \E db_error \in BOOLEAN :
              IF rejected \/ db_error
              THEN /\ NextItem(TRUE)
                   /\ Executed(FALSE)
                   /\ UNCHANGED tgtSchema
              ELSE /\ Executed(TRUE)
                   /\ tgtSchema' =
                         [tgtSchema EXCEPT ![it.table].check_constraints =
                             @ \cup {[name |-> name, sqltext |-> it.sqltext]}]
                   /\ NextItem(FALSE)
    /\ UNCHANGED <<applyFrameVars, tgtRows, target_meta, target_inspector>>

\* lines 229-257. Line 231 unpacks the two parts of a sequence item into
\* three names: ValueError, outside the try. Without sequence items the
\* with block ends: COMMIT, which for an aborted transaction is a ROLLBACK;
\* then target_meta is reflected and plan_sequences extended.
ApplyFinish ==
    /\ pc = "apply"
    /\ frame.ii > Len(frame.items)
    /\ IF call.plan.add_sequences # <<>>
       THEN /\ RaiseFromApply("ValueError")
            /\ UNCHANGED <<target_meta, plan_sequences>>
       ELSE /\ tgtSchema' = IF frame.aborted THEN frame.saved.schema ELSE tgtSchema
            /\ tgtRows' = IF frame.aborted THEN frame.saved.rows ELSE tgtRows
            /\ target_meta' = reflect(target_meta, tgtSchema')
            /\ plan_sequences' = plan_sequences \o call.plan.add_sequences
            /\ frame' = frame
            /\ pc' = "returned"
    /\ UNCHANGED <<sequences, srcSchema, srcRows, webVars, triggers_disabled, call,
                   sortVars, plan,
                   target_inspector, calls, tgt_statements, before>>

NextApply ==
    \/ AnalyzeSchema
    \/ ApplyStart
    \/ ApplyCreateTable
    \/ ApplyAddColumn
    \/ ApplyForeignKey
    \/ ApplyIndex
    \/ ApplyUnique
    \/ ApplyCheck
    \/ ApplyFinish

----------------------------------------------------------------------------
(* SpecApply: the databases analyze_schema and apply_safe_schema_changes
   are run on *)

\* users is in both databases, with legacy_code only in the target and
\* last_login (when present) only in the source; orders and notes (when
\* present) are only in the source, audit_log only in the target. Each of
\* The Column objects of the source keys have the attribute sequence that
\* line 139 reads, or do not have it. Each of
\* the foreign key users.user_id -> users.id, an index on email, a unique
\* constraint on email and a check constraint on age is in the source, in
\* the target or in both; what the target has carries the name this program
\* gives ("same") or another name ("other").
IndexCases ==
    {<<"plain", "none">>, <<"unique", "none">>, <<"plain", "same">>,
     <<"none", "same">>, <<"last_login", "none">>}
UniqueCases == {<<"yes", "none">>, <<"yes", "same">>, <<"yes", "other">>,
                <<"no", "other">>}
CheckCases == {<<"yes", "none">>, <<"yes", "same">>, <<"no", "other">>}
FkCases == {<<"yes", "no">>, <<"yes", "yes">>, <<"no", "yes">>}

ApplyColumn(c, last_login) ==
    CASE c = "id" -> KeyCol
      [] c \in {"age", "user_id"} -> IntCol
      [] c = "last_login" -> [TextCol EXCEPT !.nullable = (last_login = "nullable")]
      [] OTHER -> TextCol

SourceUsersStructure(last_login, fk, index, unique, check) ==
    [columns |->
        [c \in {"id", "email", "age", "user_id"} \cup
               (IF last_login = "absent" THEN {} ELSE {"last_login"}) |->
            ApplyColumn(c, last_login)],
     primary_key |-> <<"id">>,
     foreign_keys |-> IF fk = "yes" THEN {ForeignKey("users")} ELSE {},
     indexes |->
        CASE index = "none" -> {}
          [] index = "last_login" ->
                {[name |-> <<"ix", "users", <<"last_login">>>>, unique |-> FALSE,
                  column_names |-> <<"last_login">>]}
          [] OTHER ->
                {[name |-> <<"ix", "users", <<"email">>>>,
                  unique |-> (index = "unique"),
                  column_names |-> <<"email">>]},
     unique_constraints |->
        IF unique = "yes"
        THEN {[name |-> <<"key", "users", <<"email">>>>,
               column_names |-> <<"email">>]}
        ELSE {},
     check_constraints |->
        IF check = "yes"
        THEN {[name |-> <<"check", "users", <<"age">>>>, sqltext |-> "age >= 0"]}
        ELSE {}]

TargetUsersStructure(fk, index, unique, check) ==
    [columns |->
        [c \in {"id", "email", "age", "user_id", "legacy_code"} |->
            ApplyColumn(c, "absent")],
     primary_key |-> <<"id">>,
     foreign_keys |-> IF fk = "yes" THEN {ForeignKey("users")} ELSE {},
     indexes |->
        IF index = "none" THEN {}
        ELSE {[name |-> index_name("users", <<"email">>), unique |-> FALSE,
               column_names |-> <<"email">>]},
     unique_constraints |->
        CASE unique = "none" -> {}
          [] unique = "same" ->
                {[name |-> uc_name("users", <<"email">>),
                  column_names |-> <<"email">>]}
          [] OTHER ->
                {[name |-> <<"key", "users", <<"email">>>>,
                  column_names |-> <<"email">>]},
     check_constraints |->
        CASE check = "none" -> {}
          [] check = "same" ->
                {[name |-> check_name("users", "age >= 0"),
                  sqltext |-> "age >= 0"]}
          [] OTHER ->
                {[name |-> <<"check", "users", <<"legacy_code">>>>,
                  sqltext |-> "legacy_code <> ''"]}]

\* the tables that are only in the source: none, orders (which references
\* users), or orders and notes (which references orders)
SourceOnlyTables == {{}, {"orders"}, {"orders", "notes"}}

SourceOnlyTable(t) ==
    IF t = "orders" THEN KeyedTable({"users"}) ELSE KeyedTable({"orders"})

\* the sequence that fills the key of a table
SequenceNames ==
    [users |-> "users_id_seq", orders |-> "orders_id_seq",
     notes |-> "notes_id_seq"]

\* a source table whose key is filled from a sequence, as reflection hands
\* it to the session: a Column id that has the attribute sequence
WithSequence(tabledef, name) ==
    [tabledef EXCEPT !.columns =
        [c \in DOMAIN @ |->
            IF c = "id"
            THEN [type |-> @[c].type, nullable |-> @[c].nullable,
                  default |-> @[c].default, sequence |-> name]
            ELSE @[c]]]

TargetUserRow ==
    [c \in {"id", "email", "age", "user_id", "legacy_code"} |->
        CASE c = "id" -> KeyV(1)
          [] c = "email" -> StrV("a@test.com")
          [] c = "age" -> IntV("25")
          [] c = "user_id" -> Null
          [] c = "legacy_code" -> StrV("L")]

InitApply ==
    /\ NoWeb
    /\ \E last_login \in {"absent", "nullable", "not null"},
          fk \in FkCases, index \in IndexCases, unique \in UniqueCases,
          check \in CheckCases, only \in SourceOnlyTables,
          has_sequence \in BOOLEAN, age_type \in {"INTEGER", "VARCHAR"} :
          /\ index[1] = "last_login" => last_login # "absent"
          /\ age_type = "VARCHAR" => check[2] = "none"
          /\ srcSchema =
                [t \in {"users"} \cup only |->
                    LET reflected ==
                            IF t = "users"
                            THEN SourceUsersStructure(last_login, fk[1], index[1],
                                                      unique[1], check[1])
                            ELSE SourceOnlyTable(t)
                    IN  IF has_sequence
                        THEN WithSequence(reflected, SequenceNames[t])
                        ELSE reflected]
          /\ tgtSchema =
                [t \in {"users", "audit_log"} |->
                    IF t = "users"
                    THEN [TargetUsersStructure(fk[2], index[2], unique[2],
                                               check[2])
                            EXCEPT !.columns.age.type = age_type]
                    ELSE KeyedTable({})]
    /\ srcRows = NoRows(DOMAIN srcSchema)
    /\ \E R \in {{}, {TargetUserRow}} :
          tgtRows = [t \in {"users", "audit_log"} |->
                        IF t = "users" THEN R ELSE {}]
    /\ target_meta = tgtSchema
    /\ call = Idle
    /\ pc = "idle"
    /\ sorted_tables = <<>>
    /\ cyclic_tables = {}
    /\ triggers_disabled = {}
    /\ plan_sequences = <<>>
    /\ frame = NoFrame
    /\ tgt_statements = {}
    /\ before = [rows |-> tgtRows, schema |-> tgtSchema]
    /\ plan = <<>>
    /\ \E caches \in BOOLEAN :
          target_inspector = [NoCache EXCEPT !.caches_has_table = caches]
    /\ calls = 0
    \* every source key is filled from a sequence; the key of the target's
    \* users is a plain integer while the table is empty, and is filled from
    \* users_id_seq once the table holds its row
    /\ sequences =
          [source |-> [n \in {SequenceNames[t] : t \in DOMAIN srcSchema} |->
                          Sequence(MaxKey, TRUE)],
           target |-> IF tgtRows["users"] = {}
                      THEN <<>>
                      ELSE [n \in {"users_id_seq"} |-> Sequence(1, TRUE)]]

SpecApply == InitApply /\ [][NextApply]_vars

----------------------------------------------------------------------------
(* The web layer (api/routers/web.py): the registries the handlers share.
   A session is named by the two urls it was constructed with; what its
   methods do to the databases is the subject of the specifications above. *)

SourceUrls == {"source_a", "source_b"}
TargetUrls == {"target_x", "target_y"}

\* DBSyncer(source_url, target_url)
Syncer(source_url, target_url) ==
    [source_url |-> source_url, target_url |-> target_url]

\* the plan syncer.analyze_schema() returns
PlanOf(syncer) == [analyzed_by |-> syncer]

\* d[k] = v
dict_set(d, k, v) == (k :> v) @@ d

\* a request as the handlers receive it
Request(op, source_url, target_url) ==
    [op |-> op, source_url |-> source_url, target_url |-> target_url]

\* lines 31-50: POST /diff. No handler encloses the constructor and
\* analyze_schema: when one raises nothing is registered.
GetDiff ==
    \E source_url \in SourceUrls, target_url \in TargetUrls, ok \in BOOLEAN :
        LET syncer == Syncer(source_url, target_url)
        IN  /\ call' = Request("get_diff", source_url, target_url)
            /\ IF ok
               THEN /\ pending_syncers' = dict_set(pending_syncers, target_url, syncer)
                    /\ pending_plans' = dict_set(pending_plans, target_url, PlanOf(syncer))
                    /\ diff_pages' = diff_pages \cup {<<source_url, target_url>>}
                    /\ frame' = [status |-> 200, syncer |-> syncer]
                    /\ pc' = "returned"
               ELSE /\ frame' = [status |-> 500, syncer |-> syncer]
                    /\ pc' = "raised"
                    /\ UNCHANGED webVars
            /\ UNCHANGED <<srcSchema, srcRows, tgtSchema, tgtRows, target_meta,
                           sortVars, triggers_disabled, planVars, tgt_statements,
                           before, sequences>>

\* the rest of the state, which a request on a registered session leaves to
\* the session's method
SessionRequest(op, source_url, target_url, status, syncer) ==
    /\ call' = Request(op, source_url, target_url)
    /\ frame' = [status |-> status, syncer |-> syncer]
    /\ pc' = "returned"
    /\ UNCHANGED <<srcSchema, srcRows, tgtSchema, tgtRows, target_meta,
                   sortVars, triggers_disabled, planVars, tgt_statements,
                   before, sequences, pending_syncers, diff_pages>>

\* lines 113-156: POST /sync_data. frame.syncer is the session whose
\* sync_data_bulk ran (None when the request ended with 404).
RunSync ==
    \E source_url \in SourceUrls, target_url \in TargetUrls, ok \in BOOLEAN :
        LET syncer == dict_get(pending_syncers, target_url)
        IN  /\ IF syncer = Null
               THEN SessionRequest("run_sync", source_url, target_url, 404, Null)
               ELSE SessionRequest("run_sync", source_url, target_url,
                                   IF ok THEN 200 ELSE 500, syncer)
            /\ UNCHANGED pending_plans

\* lines 159-198: GET /conflicts
ViewConflicts ==
    \E source_url \in SourceUrls, target_url \in TargetUrls, ok \in BOOLEAN :
        LET syncer == dict_get(pending_syncers, target_url)
        IN  /\ IF syncer = Null
               THEN SessionRequest("view_conflicts", source_url, target_url, 404, Null)
               ELSE SessionRequest("view_conflicts", source_url, target_url,
                                   IF ok THEN 200 ELSE 500, syncer)
            /\ UNCHANGED pending_plans

\* lines 201-270: POST /confirm_schema applies pending_plans[target_url] on
\* pending_syncers[target_url] and stores the plan of its re-analysis
ConfirmSchema ==
    \E source_url \in SourceUrls, target_url \in TargetUrls, ok \in BOOLEAN :
        LET syncer == dict_get(pending_syncers, target_url)
            old_plan == dict_get(pending_plans, target_url)
        IN  IF syncer = Null \/ old_plan = Null
            THEN /\ SessionRequest("confirm_schema", source_url, target_url, 404, Null)
                 /\ UNCHANGED pending_plans
            ELSE /\ SessionRequest("confirm_schema", source_url, target_url,
                                    IF ok THEN 200 ELSE 500, syncer)
                 /\ pending_plans' =
                       IF ok THEN dict_set(pending_plans, target_url, PlanOf(syncer))
                       ELSE pending_plans

NextWeb ==
    \/ GetDiff
    \/ RunSync
    \/ ViewConflicts
    \/ ConfirmSchema

\* a process that has served no request; the databases are not looked into
InitWeb ==
    /\ NoWeb
    /\ srcSchema = <<>>
    /\ srcRows = <<>>
    /\ tgtSchema = <<>>
    /\ tgtRows = <<>>
    /\ target_meta = <<>>
    /\ call = Idle
    /\ pc = "idle"
    /\ sorted_tables = <<>>
    /\ cyclic_tables = {}
    /\ triggers_disabled = {}
    /\ plan_sequences = <<>>
    /\ plan = <<>>
    /\ target_inspector = NoCache
    /\ calls = 0
    /\ sequences = NoSequences
    /\ frame = NoFrame
    /\ tgt_statements = {}
    /\ before = [rows |-> <<>>, schema |-> <<>>]

SpecWeb == InitWeb /\ [][NextWeb]_vars

----------------------------------------------------------------------------
(* Properties of the dependency resolver *)

Resolved == sorted_tables # <<>>

RECURSIVE ReachableFrom(_, _)
\* the tables reachable from the set S along foreign keys (S included)
ReachableFrom(schema, S) ==
    LET N == S \cup UNION {graph(schema, t) : t \in S}
    IN  IF N = S THEN S ELSE ReachableFrom(schema, N)

\* the foreign-key edge a -> b lies on a cycle: a is reachable from b
EdgeOnCycle(schema, a, b) == a \in ReachableFrom(schema, {b})

\* C3: for every foreign-key edge A -> B between source tables that is not
\* part of a cycle, B appears before A in the returned order, on every
\* graph, including graphs that contain cycles elsewhere.
C3_TopologicalOrder ==
    Resolved =>
        \A a \in DOMAIN srcSchema : \A b \in graph(srcSchema, a) :
            ~EdgeOnCycle(srcSchema, a, b) =>
                /\ a \in Range(sorted_tables) /\ b \in Range(sorted_tables)
                /\ IndexOf(sorted_tables, b) < IndexOf(sorted_tables, a)

\* C3 witness: a graph with a cycle and, elsewhere, an acyclic edge whose
\* referenced table was moved in front of the referencing one.
C3_Witness ==
    /\ Resolved
    /\ cyclic_tables # {}
    /\ \E a \in DOMAIN srcSchema : \E b \in graph(srcSchema, a) :
          /\ ~EdgeOnCycle(srcSchema, a, b)
          /\ b \in ReachableFrom(srcSchema, cyclic_tables)
          /\ IndexOf(sorted_tables, b) < IndexOf(sorted_tables, a)

\* C4: two source tables with mutual foreign keys are both reported in the
\* cyclic set, whichever of the two is visited first.
C4_MutualBothCyclic ==
    Resolved =>
        \A a, b \in DOMAIN srcSchema :
            (a # b /\ b \in graph(srcSchema, a) /\ a \in graph(srcSchema, b))
                => {a, b} \subseteq cyclic_tables

----------------------------------------------------------------------------
(* Properties of sync_data_bulk *)

InSync == call.op = "sync_data_bulk"
SyncCompleted == InSync /\ pc = "returned"

KeyOf(r, t) == Restrict(r, Range(srcSchema[t].primary_key))
SourceKeys(t) == {KeyOf(s, t) : s \in srcRows[t]}

\* the row r0 the target held before the call is still there, with the
\* same value in every column it had
Preserved(t, r0) ==
    \E r \in tgtRows[t] : DOMAIN r0 \subseteq DOMAIN r /\ Restrict(r, DOMAIN r0) = r0

\* the source value as a column of the given type stores it
Stored(v, type) == IF IsTextual(type) /\ v # Null THEN str(v) ELSE v

\* the table lies on a foreign-key cycle
OnCycle(t) == \E u \in graph(srcSchema, t) : EdgeOnCycle(srcSchema, t, u)

\* C2: on a source whose rows satisfy their foreign keys, no row is
\* inserted into a target table with enforcement enabled before the rows
\* it references, and every table on a foreign-key cycle is loaded with
\* enforcement suspended.
C2_NoInsertBeforeReferencedRows ==
    InSync =>
        /\ frame.error # "ForeignKeyViolation"
        /\ (pc \in {"batch", "row"} /\ OnCycle(sorted_tables[frame.ti]))
              => sorted_tables[frame.ti] \in triggers_disabled

C6_OverwriteEqualsSource ==
    (SyncCompleted /\ call.strategy = "overwrite") =>
        \A t \in DOMAIN srcRows \cap DOMAIN tgtRows :
            \A s \in srcRows[t] : \A r \in tgtRows[t] :
                KeyOf(r, t) = KeyOf(s, t) =>
                    /\ \A c \in (DOMAIN s \cap DOMAIN r) \ Range(srcSchema[t].primary_key) :
                          r[c] = Stored(s[c], tgtSchema[t].columns[c].type)
                    /\ \A r0 \in before.rows[t] :
                          KeyOf(r0, t) = KeyOf(s, t) =>
                              \A c \in DOMAIN r0 \ DOMAIN s : r[c] = r0[c]

\* C7: with strategy merge a column of an existing target row changes only
\* when its value was null or the empty string, and then to the source
\* value; populated values (0 and false included) are kept, and a row whose
\* columns are all populated is not written at all.
C7_MergeFillsOnlyEmpty ==
    (InSync /\ call.strategy = "merge") =>
        \A t \in DOMAIN before.rows : \A r0 \in before.rows[t] :
            /\ \E r \in tgtRows[t] :
                  /\ KeyOf(r, t) = KeyOf(r0, t)
                  /\ \A c \in DOMAIN r0 :
                        r[c] # r0[c] =>
                            /\ r0[c] \in {Null, StrV("")}
                            /\ \E s \in srcRows[t] :
                                  /\ KeyOf(s, t) = KeyOf(r0, t)
                                  /\ r[c] = Stored(s[c], tgtSchema[t].columns[c].type)
            /\ (\A c \in DOMAIN r0 : r0[c] \notin {Null, StrV("")})
                  => \A st \in tgt_statements :
                        ~(st.table = t /\ st.key = KeyOf(r0, t))

\* C7 witness: a completed merge run in which a row had its empty name
\* filled while its 0 and false stayed although the source holds 25 and
\* true, and a fully populated row with other source values was not
\* written.
C7_Witness ==
    /\ SyncCompleted /\ call.strategy = "merge"
    /\ \E t \in DOMAIN before.rows :
          /\ \E r0 \in before.rows[t] : \E s \in srcRows[t] : \E r \in tgtRows[t] :
                /\ KeyOf(s, t) = KeyOf(r0, t) /\ KeyOf(r, t) = KeyOf(r0, t)
                /\ r0.name = StrV("") /\ r.name = StrV("Alice")
                /\ r0.age = IntV("0") /\ r.age = IntV("0") /\ s.age = IntV("25")
                /\ r0.is_active = BoolV("False") /\ r.is_active = BoolV("False")
                /\ s.is_active = BoolV("True")
          /\ \E r0 \in before.rows[t] : \E s \in srcRows[t] :
                /\ KeyOf(s, t) = KeyOf(r0, t)
                /\ \A c \in DOMAIN r0 : r0[c] \notin {Null, StrV("")}
                /\ s.name # r0.name
                /\ r0 \in tgtRows[t]

C9_TargetOnlyRowsUntouched ==
    InSync =>
        \A t \in DOMAIN before.rows : \A r0 \in before.rows[t] :
            KeyOf(r0, t) \notin SourceKeys(t) => Preserved(t, r0)

\* C9 witness: a completed overwrite run that updated one row of a table
\* holding another row whose key the source does not have.
C9_Witness ==
    /\ SyncCompleted /\ call.strategy = "overwrite"
    /\ \E st \in tgt_statements :
          /\ st.op = "update"
          /\ \E r0 \in before.rows[st.table] :
                KeyOf(r0, st.table) \notin SourceKeys(st.table)

\* C10: when a row write fails in one table, every later table of the
\* resolved order is still processed: the run does not end with tables
\* left.
C10_FailureDoesNotEndRun ==
    (/\ InSync /\ pc = "raised"
     /\ frame.error \in {"ForeignKeyViolation", "NotNullViolation", "OperationalError"})
        => frame.ti >= Len(sorted_tables)

----------------------------------------------------------------------------
(* Properties of apply_safe_schema_changes *)

InApply == call.op = "apply_safe_schema_changes"

\* every table, column and constraint of the structure old is in the
\* structure new, unchanged
Survives(old, new) ==
    \A t \in DOMAIN old :
        /\ t \in DOMAIN new
        /\ \A c \in DOMAIN old[t].columns :
              /\ c \in DOMAIN new[t].columns
              /\ new[t].columns[c] = old[t].columns[c]
        /\ new[t].primary_key = old[t].primary_key
        /\ old[t].foreign_keys \subseteq new[t].foreign_keys
        /\ old[t].indexes \subseteq new[t].indexes
        /\ old[t].unique_constraints \subseteq new[t].unique_constraints
        /\ old[t].check_constraints \subseteq new[t].check_constraints

\* C1: for every plan and every target schema, apply_safe_schema_changes
\* drops nothing: every table, column and constraint that the target had
\* before the call is in the target, unchanged, at every point of the call
\* and after it, those that exist only in the target included.
C1_NothingDropped ==
    InApply => Survives(before.schema, tgtSchema)

\* an apply that returned after it created a table, added a column and added
\* a unique constraint to the one the table had, on a target that holds a
\* table, a column and a check constraint the source does not have
C1_Witness ==
    /\ InApply
    /\ pc = "returned"
    /\ "orders" \in DOMAIN tgtSchema \ DOMAIN before.schema
    /\ "last_login" \in DOMAIN tgtSchema["users"].columns
                        \ DOMAIN before.schema["users"].columns
    /\ before.schema["users"].unique_constraints # {}
    /\ tgtSchema["users"].unique_constraints #
          before.schema["users"].unique_constraints
    /\ "audit_log" \in DOMAIN before.schema \ DOMAIN srcSchema
    /\ "legacy_code" \in DOMAIN before.schema["users"].columns
                         \ DOMAIN srcSchema["users"].columns
    /\ before.schema["users"].check_constraints
          \ srcSchema["users"].check_constraints # {}

\* the thing a plan item creates is in the structure schema
Applied(it, schema) ==
    CASE it.kind = "table" -> it.item.table \in DOMAIN schema
      [] it.kind = "column" ->
            /\ it.item.table \in DOMAIN schema
            /\ it.item.column \in DOMAIN schema[it.item.table].columns
      [] it.kind = "index" ->
            /\ it.item.table \in DOMAIN schema
            /\ \E x \in schema[it.item.table].indexes :
                  x.name = index_name(it.item.table, it.item.column_names)
      [] it.kind = "unique" ->
            /\ it.item.table \in DOMAIN schema
            /\ \E x \in schema[it.item.table].unique_constraints :
                  x.name = uc_name(it.item.table, it.item.column_names)
      [] it.kind = "check" ->
            /\ it.item.table \in DOMAIN schema
            /\ \E x \in schema[it.item.table].check_constraints :
                  x.name = check_name(it.item.table, it.item.sqltext)
      [] OTHER -> TRUE

ApplyEnded == InApply /\ pc \in {"returned", "raised"}

\* C11: in apply_safe_schema_changes the failure of one plan item does not
\* stop the remaining items from being attempted (the call reaches every
\* item of the plan), and what the statements that succeeded created is in
\* the target when the call has ended.
C11_ItemFailuresAreIsolated ==
    ApplyEnded =>
        /\ frame.ii > Len(frame.items)
        /\ \A s \in tgt_statements : s.ok => Applied(s.item, tgtSchema)

----------------------------------------------------------------------------
(* Properties of analyze_schema *)

InAnalyze == call.op = "analyze_schema"
Analyzed == InAnalyze /\ pc = "returned"

\* C12: two consecutive analyze_schema calls on the same session, with no
\* change to either database between them, return identical plans: when
\* analyze_schema is called right after an analyze_schema that returned, it
\* returns, and its plan is the plan of the call before.
C12_ConsecutivePlansIdentical ==
    [][(Analyzed /\ calls' = calls + 1 /\ call'.op = "analyze_schema")
          => (pc' = "returned" /\ plan' = plan)]_vars

\* the second call of a session is an analyze_schema (the first one then
\* was one too: no plan existed to apply) and returned a plan with a table
\* to create, a column to add, an index, a foreign key and warnings
C12_Witness ==
    /\ Analyzed
    /\ calls = 2
    /\ plan[1].create_tables # <<>>
    /\ DOMAIN plan[1].add_columns # {}
    /\ plan[1].add_indexes # <<>>
    /\ plan[1].add_foreign_keys # <<>>
    /\ plan[1].warnings # <<>>

NoDuplicates(q) == \A i, j \in 1..Len(q) : q[i] = q[j] => i = j

AppliedAll ==
    /\ InApply
    /\ pc = "returned"
    /\ ~frame.aborted
    /\ frame.items # <<>>
    /\ \A i \in 1..Len(frame.items) :
          [item |-> frame.items[i], ok |-> TRUE] \in tgt_statements

\* the plan p queues nothing that the structure schema has
QueuesNothingPresent(p, schema) ==
    /\ \A t \in Range(p.create_tables) : t \notin DOMAIN schema
    /\ \A t \in DOMAIN p.add_columns : \A c \in DOMAIN p.add_columns[t] :
          c \notin DOMAIN schema[t].columns
    /\ \A it \in Range(p.add_foreign_keys) :
          fk_signature(it) \notin
              {fk_signature(x) : x \in schema[it.table].foreign_keys}
    /\ \A it \in Range(p.add_indexes) :
          ~\E x \in get_indexes(schema[it.table]) :
                x.column_names = it.column_names
    /\ \A it \in Range(p.add_unique_constraints) :
          ~\E x \in schema[it.table].unique_constraints :
                x.column_names = it.column_names
    /\ \A it \in Range(p.add_check_constraints) :
          ~\E x \in schema[it.table].check_constraints :
                x.sqltext = it.sqltext

PlanQueuesNothingPresent == QueuesNothingPresent(plan[1], tgtSchema)

\* C14: when apply_safe_schema_changes has returned with every item of its
\* plan applied (its last step refreshes target_meta) and analyze_schema is
\* called next, analyze_schema returns a plan that queues no table, column,
\* foreign key, index, unique constraint or check constraint that the
\* target now has.
C14_AppliedItemsNotQueuedAgain ==
    [][(AppliedAll /\ calls' = calls + 1 /\ call'.op = "analyze_schema")
          => (pc' = "returned" /\ PlanQueuesNothingPresent')]_vars

\* COALESCE(MAX(column), 0) of a table
MaxPk(rows, column) ==
    LET keys == {KeyNum(r[column]) : r \in rows}
    IN  IF keys = {} THEN 0 ELSE CHOOSE k \in keys : \A l \in keys : l <= k

PlanTables(p) ==
    Range(p.create_tables) \cup DOMAIN p.add_columns
    \cup {it.table : it \in Range(p.add_indexes) \cup Range(p.add_foreign_keys)
                            \cup Range(p.add_unique_constraints)
                            \cup Range(p.add_check_constraints)
                            \cup Range(p.add_sequences)}

\* the warnings of a plan that name a table
WarningsOn(p, table) ==
    {i \in 1..Len(p.warnings) : table \in Range(p.warnings[i].message)}

\* C17: in the plan analyze_schema returns, create_tables holds exactly the
\* tables that the source database has and the target database has not, each
\* once; a table that only the target database has gets exactly one warning,
\* of level MANUAL, and no item of the plan.
C17_NewAndExtraTables ==
    Analyzed =>
        /\ Range(plan[1].create_tables) = DOMAIN srcSchema \ DOMAIN tgtSchema
        /\ NoDuplicates(plan[1].create_tables)
        /\ \A t \in DOMAIN tgtSchema \ DOMAIN srcSchema :
              /\ t \notin PlanTables(plan[1])
              /\ Cardinality(WarningsOn(plan[1], t)) = 1
              /\ \A i \in WarningsOn(plan[1], t) :
                    plan[1].warnings[i] =
                        [level |-> "MANUAL",
                         message |-> <<"Extra table in target DB", t>>]

C17_Witness ==
    /\ Analyzed
    /\ Len(plan[1].create_tables) = 2
    /\ "audit_log" \in DOMAIN tgtSchema \ DOMAIN srcSchema
    /\ Cardinality(WarningsOn(plan[1], "audit_log")) = 1

\* the columns a plan queues for a table
QueuedColumns(p, table) ==
    IF table \in DOMAIN p.add_columns THEN DOMAIN p.add_columns[table] ELSE {}

\* C18: in the plan analyze_schema returns, for every table of both
\* databases the queued columns are exactly the columns only the source
\* has, every column only the target has gets a MANUAL warning, and every
\* column of both whose types differ gets a type-mismatch warning of level
\* MANUAL and is not queued.
C18_ColumnDifferences ==
    Analyzed =>
        \A t \in DOMAIN srcSchema \cap DOMAIN tgtSchema :
            LET source_cols == srcSchema[t].columns
                target_cols == tgtSchema[t].columns
            IN  /\ QueuedColumns(plan[1], t) =
                      DOMAIN source_cols \ DOMAIN target_cols
                /\ \A col \in DOMAIN target_cols \ DOMAIN source_cols :
                      [level |-> "MANUAL",
                       message |-> <<"Extra column in target table", col, t>>]
                          \in Range(plan[1].warnings)
                /\ \A col \in DOMAIN source_cols \cap DOMAIN target_cols :
                      source_cols[col].type # target_cols[col].type =>
                          /\ col \notin QueuedColumns(plan[1], t)
                          /\ [level |-> "MANUAL",
                              message |-> <<"Type mismatch", col, t,
                                            source_cols[col].type,
                                            target_cols[col].type>>]
                                \in Range(plan[1].warnings)

\* the items of a list of a plan that belong to a table
ItemsOn(items, table) == {it \in Range(items) : it.table = table}

\* C19: in the plan analyze_schema returns, for every table of both
\* databases the queued foreign keys, indexes, unique constraints and check
\* constraints are exactly those of the source for which the target has none
\* with the same signature (constrained columns, referred table and referred
\* columns; uniqueness and columns; columns; text of the condition).
C19_ConstraintsQueuedWhenMissing ==
    Analyzed =>
        \A t \in DOMAIN srcSchema \cap DOMAIN tgtSchema :
            LET source == srcSchema[t]
                target == tgtSchema[t]
            IN  /\ {fk_signature(it) : it \in ItemsOn(plan[1].add_foreign_keys, t)}
                      = {fk_signature(x) : x \in source.foreign_keys}
                        \ {fk_signature(x) : x \in target.foreign_keys}
                /\ {it.column_names : it \in ItemsOn(plan[1].add_indexes, t)}
                      = {x.column_names : x \in
                            {y \in get_indexes(source) :
                                idx_signature(y) \notin
                                    {idx_signature(z) : z \in get_indexes(target)}}}
                /\ {it.column_names :
                        it \in ItemsOn(plan[1].add_unique_constraints, t)}
                      = {x.column_names : x \in source.unique_constraints}
                        \ {x.column_names : x \in target.unique_constraints}
                /\ {it.sqltext : it \in ItemsOn(plan[1].add_check_constraints, t)}
                      = {x.sqltext : x \in source.check_constraints}
                        \ {x.sqltext : x \in target.check_constraints}

Reported == call.op = "report_conflicts" /\ pc = "returned"

\* the keys a table holds on one side (none without a primary key)
KeysOf(schema, rows, t) ==
    IF schema[t].primary_key = <<>> THEN {}
    ELSE {pk_value(r, schema[t].primary_key) : r \in rows[t]}

\* the records the report has for a key of a table
RecordsOf(report, t, pk) ==
    IF t \in DOMAIN report THEN {c \in report[t] : c.pk = pk} ELSE {}

\* C20: in the report report_conflicts returns, a key that a table has in
\* the source and not in the target has a record, and every column of the
\* record has null as its target value; a key the table has in the target
\* and not in the source has a record, and every column of it has null as
\* its source value.
C20_OneSidedKeysReported ==
    Reported =>
        \A t \in DOMAIN srcSchema \cap DOMAIN tgtSchema :
            LET in_source == KeysOf(srcSchema, srcRows, t)
                in_target == KeysOf(srcSchema, tgtRows, t)
            IN  /\ \A pk \in in_source \ in_target :
                      /\ RecordsOf(frame.conflicts, t, pk) # {}
                      /\ \A c \in RecordsOf(frame.conflicts, t, pk) :
                            \A col \in DOMAIN c.diffs : c.diffs[col][2] = Null
                /\ \A pk \in in_target \ in_source :
                      /\ RecordsOf(frame.conflicts, t, pk) # {}
                      /\ \A c \in RecordsOf(frame.conflicts, t, pk) :
                            \A col \in DOMAIN c.diffs : c.diffs[col][1] = Null

C20_Witness ==
    /\ Reported
    /\ \E t \in DOMAIN srcSchema \cap DOMAIN tgtSchema :
          /\ \E pk \in KeysOf(srcSchema, srcRows, t) \ KeysOf(srcSchema, tgtRows, t) :
                \E c \in RecordsOf(frame.conflicts, t, pk) :
                    \E col \in DOMAIN c.diffs : c.diffs[col][2] = Null
          /\ \E pk \in KeysOf(srcSchema, tgtRows, t) \ KeysOf(srcSchema, srcRows, t) :
                \E c \in RecordsOf(frame.conflicts, t, pk) :
                    \E col \in DOMAIN c.diffs : c.diffs[col][1] = Null

\* what the report shows for a column of the row with key pk on one side:
\* the string form of the value, or null when that side has no such row or
\* no such column
Shown(schema, rows, t, pk, col) ==
    LET R == {r \in rows[t] : pk_value(r, srcSchema[t].primary_key) = pk}
    IN  IF R = {} \/ col \notin DOMAIN schema[t].columns THEN Null
        ELSE str((CHOOSE r \in R : TRUE)[col])

\* the columns in which the two sides differ for the key pk
Differing(t, pk) ==
    {col \in DOMAIN srcSchema[t].columns \cup DOMAIN tgtSchema[t].columns :
        Shown(srcSchema, srcRows, t, pk, col) # Shown(tgtSchema, tgtRows, t, pk, col)}

AllKeys(t) == KeysOf(srcSchema, srcRows, t) \cup KeysOf(srcSchema, tgtRows, t)

\* C21: the report has an entry for a table exactly when the table is in
\* both databases, has a primary key and has a key whose rows differ; the
\* entry has one record for each such key and none for any other key, and a
\* record lists exactly the columns whose string forms differ, with both
\* string forms.
C21_ReportIsTheDifference ==
    Reported =>
        /\ DOMAIN frame.conflicts =
              {t \in DOMAIN srcSchema \cap DOMAIN tgtSchema :
                  \E pk \in AllKeys(t) : Differing(t, pk) # {}}
        /\ \A t \in DOMAIN frame.conflicts :
              /\ {c.pk : c \in frame.conflicts[t]} =
                    {pk \in AllKeys(t) : Differing(t, pk) # {}}
              /\ \A c \in frame.conflicts[t] :
                    /\ DOMAIN c.diffs = Differing(t, c.pk)
                    /\ \A col \in DOMAIN c.diffs :
                          c.diffs[col] =
                              <<Shown(srcSchema, srcRows, t, c.pk, col),
                                Shown(tgtSchema, tgtRows, t, c.pk, col)>>
                    /\ \A d \in frame.conflicts[t] : d.pk = c.pk => d = c

\* a report with a record for one key of members and none for a key whose
\* rows agree, on databases that share a table without primary key and
\* differ in it
C21_Witness ==
    /\ Reported
    /\ "members" \in DOMAIN frame.conflicts
    /\ \E pk \in KeysOf(srcSchema, srcRows, "members")
                    \cap KeysOf(srcSchema, tgtRows, "members") :
          RecordsOf(frame.conflicts, "members", pk) = {}
    /\ "events" \notin DOMAIN frame.conflicts
    /\ srcRows["events"] # tgtRows["events"]

\* C22: a call of report_conflicts changes no structure and no row of the
\* source or the target, no trigger setting and no sequence, and leaves
\* target_meta, the target inspector's cache and plan_sequences as they were.
C22_ReportReadsOnly ==
    [][call'.op = "report_conflicts" =>
          UNCHANGED <<dbVars, target_meta, target_inspector, plan_sequences>>]_vars

\* a report with entries, made in a session that holds queued sequences
C22_Witness ==
    /\ Reported
    /\ DOMAIN frame.conflicts # {}
    /\ plan_sequences # <<>>
    /\ \E t \in DOMAIN tgtRows : tgtRows[t] # {}

\* the tables of both databases with a two-column primary key
PairKeyed ==
    {t \in DOMAIN srcSchema \cap DOMAIN tgtSchema :
        Len(srcSchema[t].primary_key) = 2}

\* the records the report has for a table
RecordsIn(report, t) == IF t \in DOMAIN report THEN report[t] ELSE {}

\* C23: for a table with a two-column primary key, sync_data_bulk updates
\* only a target row that had both key values of the source row and inserts
\* only when no target row had both; a target row whose pair of key values
\* is not in the source is left as it was, also when it shares one key
\* value with a source row; merge fills only the row with the same pair.
\* report_conflicts has one record per pair of key values, with the
\* differences of the rows that have that pair.
C23_BothKeyColumnsIdentifyARow ==
    \A t \in PairKeyed :
        /\ InSync =>
              /\ \A st \in tgt_statements :
                    st.table = t =>
                        /\ DOMAIN st.key = Range(srcSchema[t].primary_key)
                        /\ st.op = "update" <=>
                              \E r0 \in before.rows[t] : KeyOf(r0, t) = st.key
                        /\ st.op = "insert" <=>
                              ~\E r0 \in before.rows[t] : KeyOf(r0, t) = st.key
              /\ \A r0 \in before.rows[t] :
                    /\ KeyOf(r0, t) \notin SourceKeys(t) => r0 \in tgtRows[t]
                    /\ \A r \in tgtRows[t] :
                          KeyOf(r, t) = KeyOf(r0, t) =>
                              \A c \in DOMAIN r0 :
                                  r[c] # r0[c] =>
                                      \E s \in srcRows[t] :
                                          /\ KeyOf(s, t) = KeyOf(r0, t)
                                          /\ r[c] = s[c]
        /\ Reported =>
              /\ {c.pk : c \in RecordsIn(frame.conflicts, t)} =
                    {pk \in AllKeys(t) : Differing(t, pk) # {}}
              /\ \A c \in RecordsIn(frame.conflicts, t) :
                    /\ Len(c.pk) = 2
                    /\ DOMAIN c.diffs = Differing(t, c.pk)

\* a completed load that updated one row of members and left alone a target
\* row with the same user_id and another group_id
C23_Witness ==
    /\ SyncCompleted
    /\ \E st \in tgt_statements :
          /\ st.table = "members" /\ st.op = "update"
          /\ \E r0 \in before.rows["members"] :
                /\ r0.user_id = st.key.user_id
                /\ r0.group_id # st.key.group_id
                /\ r0 \in tgtRows["members"]

ResolveEnded ==
    /\ call.op = "resolve_conflicts"
    /\ pc \in {"returned", "raised"}
    /\ call.registered

\* the strategy the request asks for a record
Asked(t, pk) ==
    IF <<t, pk>> \in DOMAIN call.overrides THEN call.overrides[<<t, pk>>]
    ELSE call.global_strategy

Keyless == {t \in DOMAIN srcSchema : srcSchema[t].primary_key = <<>>}

\* C25: sync_data_bulk never loads a source table without primary key: it
\* fetches no batch of it, sends no statement for it and leaves its target
\* rows and columns as they were, also when asked to create missing
\* columns; the tables after it in the order are loaded. report_conflicts
\* has no entry for it.
C25_KeylessTablesPassedOver ==
    \A t \in Keyless :
        /\ InSync =>
              /\ pc \in {"batch", "row"} => sorted_tables[frame.ti] # t
              /\ \A st \in tgt_statements : st.table # t
              /\ t \in DOMAIN tgtSchema =>
                    /\ tgtRows[t] = before.rows[t]
                    /\ tgtSchema[t] = before.schema[t]
        /\ SyncCompleted =>
              \A u \in (DOMAIN srcSchema \cap DOMAIN tgtSchema) \ Keyless :
                  \A s0 \in srcRows[u] :
                      \E r \in tgtRows[u] : KeyOf(r, u) = KeyOf(s0, u)
        /\ Reported => t \notin DOMAIN frame.conflicts

\* a completed load, asked to create missing columns, whose order has the
\* table without primary key first: the source has rows and a column of it
\* that the target has not, and a row was inserted into a later table
C25_Witness ==
    /\ SyncCompleted
    /\ call.create_missing_columns
    /\ sorted_tables[1] \in Keyless
    /\ srcRows[sorted_tables[1]] # {}
    /\ DOMAIN srcSchema[sorted_tables[1]].columns
          # DOMAIN tgtSchema[sorted_tables[1]].columns
    /\ \E st \in tgt_statements : st.op = "insert"

\* C26: triggers are disabled only on the table being loaded, while its
\* load is under way: between the loads, and when sync_data_bulk has
\* returned or raised, no table has its triggers disabled.
C26_TriggersEnabledAfterLoad ==
    InSync =>
        /\ pc \in {"table", "returned", "raised"} => triggers_disabled = {}
        /\ pc \in {"batch", "row"} =>
              triggers_disabled \subseteq {sorted_tables[frame.ti]}

\* a load with triggers disabled that wrote a row and then failed on a write
C26_Witness ==
    /\ InSync
    /\ pc = "raised"
    /\ frame.disable_fk
    /\ frame.error \in {"OperationalError", "NotNullViolation",
                         "ForeignKeyViolation"}
    /\ \E st \in tgt_statements : st.table = sorted_tables[frame.ti]

\* C27: no table of the cyclic list is in the sorted list, and the sorted
\* list followed by the cyclic list holds every source table exactly once.
C27_CyclicTablesNotInSortedList ==
    Resolved =>
        /\ cyclic_tables \cap Range(sorted_tables) = {}
        /\ NoDuplicates(sorted_tables)
        /\ Range(sorted_tables) \cup cyclic_tables = DOMAIN srcSchema

\* C28: the batch loop of a table, once entered, ends (with the table done
\* or with an exception), for every batch size; and when it ends with the
\* table done, the loop body has run for the rows of the source table in
\* key order, once for each row.
C28_BatchLoopEndsAfterEveryRow ==
    /\ [][(InSync /\ pc = "batch" /\ pc' = "table") =>
             frame.seen =
                 OrderByKey(srcRows[sorted_tables[frame.ti]],
                            srcSchema[sorted_tables[frame.ti]].primary_key)]_vars
    /\ (InSync /\ pc \in {"batch", "row"}) ~> (pc \in {"table", "raised"})
    /\ InSync ~> (pc \in {"returned", "raised"})

\* a completed run with batch size 2 whose last loaded table has two rows
C28_Witness ==
    /\ SyncCompleted
    /\ call.batch_size = 2
    /\ Len(frame.seen) = 2
    /\ frame.seen[1] # frame.seen[2]

\* the statements of this run on tables other than t
StatementsElsewhere(t) == {st \in tgt_statements : st.table # t}

\* C29: when an exception ends the run inside the load of table T, the
\* target holds T with the rows and the columns it had before the run, the
\* step leaves every other table as it was, and every row written to a table
\* loaded before T is in the target.
C29_FailedTableRolledBackAlone ==
    [][(InSync /\ pc \in {"table", "batch", "row"} /\ pc' = "raised") =>
          LET T == sorted_tables[frame.ti]
          IN  /\ tgtRows'[T] = before.rows[T]
              /\ tgtSchema'[T] = before.schema[T]
              /\ \A u \in DOMAIN tgtRows \ {T} :
                     tgtRows'[u] = tgtRows[u] /\ tgtSchema'[u] = tgtSchema[u]
              /\ \A st \in StatementsElsewhere(T) :
                     \E r \in tgtRows'[st.table] : KeyOf(r, st.table) = st.key]_vars

\* a run that ended in the load of a table after it had written a row to
\* that table and a row to a table loaded before it
C29_Witness ==
    /\ InSync
    /\ pc = "raised"
    /\ frame.ti > 1
    /\ frame.error \in {"OperationalError", "ForeignKeyViolation", "NotNullViolation"}
    /\ Len(frame.seen) > 0
    /\ StatementsElsewhere(sorted_tables[frame.ti]) # {}
    /\ \E st \in tgt_statements : st.table = sorted_tables[frame.ti]
    /\ \E u \in DOMAIN tgtRows : tgtRows[u] # before.rows[u]

\* the columns of the source that are bound to a sequence, as the items
\* that would queue them
SourceSequenceItems ==
    UNION {{[table |-> t,
             sequence |-> col_sequence(srcSchema[t].columns[c]),
             column |-> c] :
               c \in {k \in DOMAIN srcSchema[t].columns :
                         col_sequence(srcSchema[t].columns[k]) # "None"}} :
           t \in DOMAIN srcSchema}

\* C30: the plan analyze_schema returns has a sequence item for every
\* source column bound to a sequence, the columns of the tables it queues
\* for creation included.
C30_EverySourceSequenceQueued ==
    Analyzed => SourceSequenceItems \subseteq Range(plan[1].add_sequences)

\* the UPDATE the request sent for a record, if any
SentFor(t, rec) == {st \in tgt_statements : st.table = t /\ st.key = rec.pk}

MissingBefore(t) == DOMAIN srcSchema[t].columns \ DOMAIN before.schema[t].columns

\* the tables the run loads
Loaded == {t \in DOMAIN srcSchema \cap DOMAIN before.schema :
              srcSchema[t].primary_key # <<>>}

\* C32: after a completed run with create_missing_columns, every column the
\* source table has and the target table had not is in the target table,
\* and every row the run inserted, or updated under overwrite, holds the
\* source value in it; after a completed run without create_missing_columns
\* every target table has the columns it had before.
C32_MissingColumnsAddedAndFilled ==
    SyncCompleted =>
        IF call.create_missing_columns
        THEN \A t \in Loaded : \A c \in MissingBefore(t) :
                /\ c \in DOMAIN tgtSchema[t].columns
                /\ \A st \in tgt_statements :
                      (/\ st.table = t
                       /\ \/ st.op = "insert"
                          \/ st.op = "update" /\ call.strategy = "overwrite") =>
                          \A s \in srcRows[t] : \A r \in tgtRows[t] :
                              (KeyOf(s, t) = st.key /\ KeyOf(r, t) = st.key) =>
                                  /\ c \in DOMAIN r
                                  /\ r[c] = Stored(s[c], srcSchema[t].columns[c].type)
        ELSE \A t \in DOMAIN tgtSchema :
                DOMAIN tgtSchema[t].columns = DOMAIN before.schema[t].columns

\* C33: when a plan is applied again right after an application of it that
\* returned and was committed, the second call leaves every table of the
\* target with the columns, foreign keys, indexes and constraints it had
\* when the first call had ended, and creates and drops no table.
C33_SecondApplyChangesNothing ==
    (ApplyEnded /\ call.again) => tgtSchema = before.schema

\* a second application of a plan whose first application created a table,
\* a column, an index and a unique constraint; the second call sent
\* statements for them again
C33_Witness ==
    /\ ApplyEnded /\ call.again
    /\ call.plan.create_tables # <<>>
    /\ DOMAIN call.plan.add_columns # {}
    /\ call.plan.add_indexes # <<>>
    /\ call.plan.add_unique_constraints # <<>>
    /\ \A it \in Range(frame.items) :
          it.kind \in {"table", "column", "index", "unique"} =>
              Applied(it, before.schema)
    /\ \E st \in tgt_statements : st.item.kind = "index" /\ ~st.ok

\* the indexes of a table of the target that the last
\* apply_safe_schema_changes of the session created
CreatedIndexes(t) ==
    {x \in tgtSchema[t].indexes :
        \E st \in tgt_statements :
            /\ st.ok
            /\ st.item.kind = "index"
            /\ st.item.item.table = t
            /\ x.name = index_name(t, st.item.item.column_names)}

\* C34: every index apply_safe_schema_changes has created has the
\* uniqueness flag and the ordered columns of a source index of the table,
\* and the plan analyze_schema returns does not queue an index that was
\* created for the same table and columns.
C34_CreatedIndexMatchesSource ==
    /\ (InApply /\ pc = "returned") =>
          \A t \in DOMAIN tgtSchema \cap DOMAIN srcSchema :
              \A x \in CreatedIndexes(t) :
                  \E sidx \in get_indexes(srcSchema[t]) :
                      idx_signature(sidx) = idx_signature(x)
    /\ Analyzed =>
          \A it \in Range(plan[1].add_indexes) :
              it.table \in DOMAIN tgtSchema =>
                  ~\E x \in CreatedIndexes(it.table) :
                        x.column_names = it.column_names

\* a request of the web layer that ran on a session
RanOnSession ==
    /\ call.op \in {"run_sync", "view_conflicts", "confirm_schema"}
    /\ frame.status # 404

\* C35: a data sync, schema confirmation or conflict report requested with
\* the urls of a page that /diff rendered runs on a session constructed with
\* the source_url of the request, whatever other /diff requests were served
\* in between.
C35_RequestRunsOnItsSource ==
    (RanOnSession /\ <<call.source_url, call.target_url>> \in diff_pages) =>
        frame.syncer.source_url = call.source_url

====
